---- MODULE Spec2Model ----
(***************************************************************************)
(* Orbital-mechanics core of the Nebula Earth-observation backend:         *)
(*   backend/app/services/orbital_mechanics.py     (OrbitalMechanics)       *)
(*   backend/app/services/satellite_physics.py     (SatellitePhysicsEngine) *)
(*   backend/app/services/constellation_manager.py (ConstellationManager)   *)
(*                                                                         *)
(* Numbers.  Python floats are modelled by exact integers and rationals.    *)
(* A rational is a record [num, den] with den > 0.  Lengths that the code   *)
(* obtains through a square root are kept squared.  Times are whole         *)
(* seconds counted from the instant datetime.utcnow() returns at the start  *)
(* of a query; a timedelta is a number of seconds.                          *)
(***************************************************************************)
EXTENDS Integers, Sequences, FiniteSets, TLC

VARIABLES
    colPc, colIn, colOut,        \* OrbitalMechanics.check_collision_risk
    kepPc, kepIn, kepOut,        \* OrbitalMechanics.keplerian_to_cartesian
    mergePc, mergeIn, mergeOut,  \* ConstellationManager._merge_coverage_periods
    profile,                     \* SatellitePhysicsEngine.satellites, with what
                                 \* each propagates to as seen by the observer
    query,                       \* arguments of predict_orbital_passes
    pc,                          \* position in predict_orbital_passes
    satellite_ids, sat_idx,      \* locals of predict_orbital_passes
    predictions,
    passes, current_time,        \* locals of _calculate_satellite_passes
    find,                        \* locals of _find_pass_boundaries
    constellations,              \* ConstellationManager.constellations
    coverage_maps,               \* ConstellationManager.coverage_maps
    covPc, covIn,                \* position in and arguments of
                                 \* calculate_coverage_pattern
    cov_idx, all_passes,         \* its locals
    coverage_data,               \* its result
    manPc, manIn, manOut,        \* OrbitalMechanics.calculate_orbital_maneuver
    hohIn, hohOut,               \* calls of calculate_hohmann_transfer and
                                 \* what each returned
    skPc, skIn, skOut,           \* OrbitalMechanics.calculate_station_keeping
    geoPc, geoIn, geoEci, geoOut, \* a point taken through _lat_lng_alt_to_eci
                                 \* and _eci_to_lat_lng_alt
    satellite_metadata,          \* SatellitePhysicsEngine.satellite_metadata
    is_running,                  \* SatellitePhysicsEngine.is_running
    refPc,                       \* the task running _position_update_loop
    posPc, posIn, posOut,        \* get_satellite_position
    apiPc, apiIn, apiOut,        \* a request to the pass endpoints of
                                 \* api/v1/endpoints/satellite_physics.py
    misPc, misIn, misOut,        \* coordinate_multi_satellite_mission
    optPc, optIn, optOut,        \* optimize_satellite_positioning
    optimization_cache,          \* ConstellationManager.optimization_cache
    later_loops,                 \* the tasks running _position_update_loop
                                 \* that later calls of initialize created
    active_connections,          \* ConnectionManager.active_connections
    agent_connections,           \* ConnectionManager.agent_connections
    room_subscriptions,          \* ConnectionManager.room_subscriptions
    wsGone,                      \* the sockets disconnect was called for and
                                 \* connect was not called for since
    wsSent                       \* the sockets the last broadcast sent to

colVars == <<colPc, colIn, colOut>>
kepVars == <<kepPc, kepIn, kepOut>>
mergeVars == <<mergePc, mergeIn, mergeOut>>
passVars == <<profile, query, pc, satellite_ids, sat_idx, predictions, passes, current_time, find>>
covVars == <<constellations, coverage_maps, covPc, covIn, cov_idx, all_passes, coverage_data>>
vars == <<colPc, colIn, colOut, kepPc, kepIn, kepOut,
          mergePc, mergeIn, mergeOut,
          profile, query, pc, satellite_ids, sat_idx, predictions, passes,
          current_time, find,
          constellations, coverage_maps, covPc, covIn, cov_idx, all_passes,
          coverage_data,
          manPc, manIn, manOut, hohIn, hohOut, skPc, skIn, skOut,
          geoPc, geoIn, geoEci, geoOut,
          satellite_metadata, is_running, refPc, posPc, posIn, posOut,
          apiPc, apiIn, apiOut,
          misPc, misIn, misOut, optPc, optIn, optOut, optimization_cache,
          later_loops,
          active_connections, agent_connections, room_subscriptions,
          wsGone, wsSent>>
baseVars == <<colVars, kepVars, mergeVars, passVars, covVars>>
orbVars == <<manPc, manIn, manOut, hohIn, hohOut, skPc, skIn, skOut>>
geoVars == <<geoPc, geoIn, geoEci, geoOut>>
engVars == <<satellite_metadata, is_running, refPc, posPc, posIn, posOut>>
apiVars == <<apiPc, apiIn, apiOut>>
cmVars == <<misPc, misIn, misOut, optPc, optIn, optOut, optimization_cache>>
lifeVars == <<later_loops>>
wsVars == <<active_connections, agent_connections, room_subscriptions, wsGone, wsSent>>
extVars == <<orbVars, geoVars, engVars, apiVars, cmVars, lifeVars, wsVars>>
notOrb == <<baseVars, geoVars, engVars, apiVars, cmVars, lifeVars, wsVars>>
notGeo == <<baseVars, orbVars, engVars, apiVars, cmVars, lifeVars, wsVars>>
notApi == <<baseVars, orbVars, geoVars, engVars, cmVars, lifeVars, wsVars>>
notCm == <<baseVars, orbVars, geoVars, engVars, apiVars, lifeVars, wsVars>>
notWs == <<baseVars, orbVars, geoVars, engVars, apiVars, cmVars, lifeVars>>

(***************************************************************************)
(* Rationals and 3-vectors                                                 *)
(***************************************************************************)
Rat(n, d) == [num |-> n, den |-> d]
RatLt(a, b) == a.num * b.den < b.num * a.den
RatLe(a, b) == a.num * b.den <= b.num * a.den
RatEq(a, b) == a.num * b.den = b.num * a.den

Dot(a, b) == a[1] * b[1] + a[2] * b[2] + a[3] * b[3]
Sub(a, b) == <<a[1] - b[1], a[2] - b[2], a[3] - b[3]>>
ZeroVec == <<0, 0, 0>>

(***************************************************************************)
(* Bounds of the input spaces                                              *)
(***************************************************************************)
\* A separation (km) so large that its closest approach lies beyond a
\* one-hour horizon at unit relative speed.
Far == 4000
\* Passes handed to the interval merge on its own: their number, and the
\* latest instant (seconds) one of them ends.
MaxPasses == 3
MaxMergeTime == 5
\* The longest search horizon of a pass query, in minutes.
MaxHorizonMin == 45
\* the largest orbit radius of a transfer, km
MaxRadius == 8000
\* calls of calculate_hohmann_transfer in one behaviour
MaxHohmannCalls == 2
\* the largest drift of a semi-major axis, in tenths of a kilometre
MaxDriftA10 == 50
\* the highest altitude of a point, in units of 250 m
MaxAltitude == 20000
\* the largest coordinate (degrees) of a request
MaxCoordinate == 999
\* the satellites and the target areas of a mission
MaxMissionSatellites == 3
MaxTargetAreas == 4
\* the calls of initialize after the first
MaxLaterInitializeCalls == 2
\* the entries of a list of connections
MaxConnections == 3
\* the target areas of an optimization
MaxOptimizeTargets == 3

(***************************************************************************)
(* OrbitalMechanics.check_collision_risk                                   *)
(***************************************************************************)
\* time_horizon is given in hours and compared in seconds (line 272).
SecondsPerHour == 3600
\* risk_level is "high" below ten times the minimum separation (line 279).
HighRiskFactor == 10

\* The variant of collision_risk_moving that compares t_ca with the horizon in
\* hours, without the conversion to seconds.
collision_risk_moving_hours(r_rel, v_rel, min_separation, time_horizon) ==
    LET t_ca == Rat(-Dot(r_rel, v_rel), Dot(v_rel, v_rel))
        r_ca_num == [i \in 1..3 |-> r_rel[i] * t_ca.den + v_rel[i] * t_ca.num]
        d_ca_sq == Rat(Dot(r_ca_num, r_ca_num), t_ca.den * t_ca.den)
        collision_risk ==
            /\ RatLt(d_ca_sq, Rat(min_separation * min_separation, 1))
            /\ RatLe(Rat(0, 1), t_ca)
            /\ RatLe(t_ca, Rat(time_horizon, 1))
    IN  [collision_risk |-> collision_risk,
         closest_approach_distance_sq |-> d_ca_sq,
         time_to_closest_approach |-> t_ca,
         minimum_separation |-> min_separation,
         risk_level |->
            IF RatLt(d_ca_sq, Rat(min_separation * HighRiskFactor
                                    * min_separation * HighRiskFactor, 1))
            THEN "high" ELSE "low",
         error |-> FALSE]

\* The result dictionary of the branch np.linalg.norm(v_rel) > 0.
\* t_ca = -(r.v)/|v|^2 is the rational -(r.v) / |v|^2; r_ca = r + v*t_ca has
\* the numerators r_ca_num over the same denominator; d_ca is kept squared.
collision_risk_moving(r_rel, v_rel, min_separation, time_horizon) ==
    LET t_ca == Rat(-Dot(r_rel, v_rel), Dot(v_rel, v_rel))
        r_ca_num == [i \in 1..3 |-> r_rel[i] * t_ca.den + v_rel[i] * t_ca.num]
        d_ca_sq == Rat(Dot(r_ca_num, r_ca_num), t_ca.den * t_ca.den)
        collision_risk ==
            /\ RatLt(d_ca_sq, Rat(min_separation * min_separation, 1))
            /\ RatLe(Rat(0, 1), t_ca)
            /\ RatLe(t_ca, Rat(time_horizon * SecondsPerHour, 1))
    IN  [collision_risk |-> collision_risk,
         closest_approach_distance_sq |-> d_ca_sq,
         time_to_closest_approach |-> t_ca,
         minimum_separation |-> min_separation,
         risk_level |->
            IF RatLt(d_ca_sq, Rat(min_separation * HighRiskFactor
                                    * min_separation * HighRiskFactor, 1))
            THEN "high" ELSE "low",
         error |-> FALSE]

\* The result dictionary of the else branch: zero relative velocity.
collision_risk_static(r_rel, min_separation) ==
    [collision_risk |-> FALSE,
     closest_approach_distance_sq |-> Rat(Dot(r_rel, r_rel), 1),
     time_to_closest_approach |-> Rat(0, 1),
     minimum_separation |-> min_separation,
     risk_level |-> "low",
     error |-> FALSE]

check_collision_risk(sat1_pos, sat1_vel, sat2_pos, sat2_vel, sat1_radius, sat2_radius, time_horizon) ==
    LET r_rel == Sub(sat2_pos, sat1_pos)
        v_rel == Sub(sat2_vel, sat1_vel)
        min_separation == sat1_radius + sat2_radius
    IN  IF Dot(v_rel, v_rel) > 0
        THEN collision_risk_moving(r_rel, v_rel, min_separation, time_horizon)
        ELSE collision_risk_static(r_rel, min_separation)

\* Object states and parameters a collision query is drawn from.
CollisionInputs ==
    [sat1_pos : {ZeroVec, <<1, 0, 0>>},
     sat1_vel : {ZeroVec, <<0, 1, 0>>},
     sat2_pos : {-Far, -2, -1, 0, 2} \X {0, 1, 2} \X {0, 1},
     sat2_vel : {-1, 0, 1} \X {-1, 0, 1} \X {0},
     sat1_radius : {0, 1},
     sat2_radius : {0, 1},
     time_horizon : {0, 1, 24}]

NoCollisionInput ==
    [sat1_pos |-> ZeroVec, sat1_vel |-> ZeroVec, sat2_pos |-> ZeroVec,
     sat2_vel |-> ZeroVec, sat1_radius |-> 0, sat2_radius |-> 0,
     time_horizon |-> 0]

NoCollisionResult == collision_risk_static(ZeroVec, 0)

ColIdle == colPc = "idle" /\ colIn = NoCollisionInput /\ colOut = NoCollisionResult

ColInit ==
    /\ colPc = "call"
    /\ colIn \in CollisionInputs
    /\ colOut = NoCollisionResult

CheckCollisionRisk ==
    /\ colPc = "call"
    /\ colOut' = check_collision_risk(colIn.sat1_pos, colIn.sat1_vel,
                                      colIn.sat2_pos, colIn.sat2_vel,
                                      colIn.sat1_radius, colIn.sat2_radius,
                                      colIn.time_horizon)
    /\ colPc' = "done"
    /\ UNCHANGED <<colIn, kepVars, mergeVars, passVars, covVars, extVars>>

(***************************************************************************)
(* OrbitalMechanics.keplerian_to_cartesian                                 *)
(*                                                                         *)
(* eccentricity is given in tenths (ecc10 = 10*e); the angles are           *)
(* multiples of 90 degrees, for which math.cos and math.sin are known:      *)
(* cos(pi) is exactly -1.0, cos(pi/2) is about 6e-17, not 0.                *)
(* inclination, right_ascension and argument_of_perigee are 0, so that the  *)
(* rotation R is the identity and r_eci = r_pf.                             *)
(***************************************************************************)
\* math.cos of a multiple of 90 degrees, as the sign that decides the
\* arithmetic: cos(0) = 1.0, cos(pi) = -1.0, cos(pi/2) = 6e-17 (added to 1
\* it is absorbed).
Cos90(nu) == CASE nu = 0 -> 1 [] nu = 180 -> -1 [] OTHER -> 0

\* 10 * (1 + e*cos(nu)), the divisor of r = p / (1 + e*cos(nu)).
RadialDenom10(ecc10, nu) == 10 + ecc10 * Cos90(nu)

\* 100 * p, the semi-latus rectum p = a * (1 - e * e).
SemiLatus100(a, ecc10) == a * (100 - ecc10 * ecc10)

\* Whether the try block raises: ZeroDivisionError in r = p / (1 + e*cos(nu))
\* or in mu / p, ValueError in math.sqrt(mu / p) for p < 0.
kepler_raises(a, ecc10, nu) ==
    \/ RadialDenom10(ecc10, nu) = 0
    \/ SemiLatus100(a, ecc10) <= 0

\* The returned pair: computed by the try block (line 86), or the zero
\* arrays of the except handler (line 90).  The function never raises.
\* radius is r = p / (1 + e*cos(nu)).
keplerian_to_cartesian(a, ecc10, nu) ==
    IF kepler_raises(a, ecc10, nu)
    THEN [computed |-> FALSE, raised |-> FALSE, radius |-> Rat(0, 1)]
    ELSE [computed |-> TRUE, raised |-> FALSE,
          radius |-> LET d == 10 * RadialDenom10(ecc10, nu)
                     IN  IF d > 0 THEN Rat(SemiLatus100(a, ecc10), d)
                                  ELSE Rat(-SemiLatus100(a, ecc10), -d)]

KeplerInputs ==
    [semi_major_axis : {-7000, 0, 6793, 7000, 42164},
     ecc10 : {-5, 0, 3, 9, 10, 12, 20},
     mean_anomaly : {0, 90, 180}]

NoKeplerInput == [semi_major_axis |-> 0, ecc10 |-> 0, mean_anomaly |-> 0]
NoKeplerResult == [computed |-> FALSE, raised |-> FALSE, radius |-> Rat(0, 1)]

KepIdle == kepPc = "idle" /\ kepIn = NoKeplerInput /\ kepOut = NoKeplerResult

KepInit ==
    /\ kepPc = "call"
    /\ kepIn \in KeplerInputs
    /\ kepOut = NoKeplerResult

KeplerianToCartesian ==
    /\ kepPc = "call"
    /\ kepOut' = keplerian_to_cartesian(kepIn.semi_major_axis, kepIn.ecc10,
                                        kepIn.mean_anomaly)
    /\ kepPc' = "done"
    /\ UNCHANGED <<kepIn, colVars, mergeVars, passVars, covVars, extVars>>

(***************************************************************************)
(* Passes (PassPrediction) and ConstellationManager._merge_coverage_periods *)
(***************************************************************************)
\* timedelta.total_seconds() / 60.0: a number of seconds in minutes.
Minutes(seconds) == Rat(seconds, 60)

RatAdd(a, b) == Rat(a.num * b.den + b.num * a.den, a.den * b.den)

\* The second of the two, whichever is larger.
SecondOf(a, b) == b

\* max(current_end, pass_obj.end_time) of line 112.
Max(a, b) == IF a >= b THEN a ELSE b

\* The dictionary appended to merged (lines 115-119 and 124-128).
CoveragePeriod(current_start, current_end) ==
    [start |-> current_start, end |-> current_end,
     duration |-> Minutes(current_end - current_start)]

\* The variant of extends_current that takes a pass starting exactly at the
\* current end for a new period.
extends_current_strict(pass_obj, current_end) ==
    pass_obj.start_time < current_end

\* The test of line 110: the pass overlaps or touches the current period.
extends_current(pass_obj, current_end) ==
    pass_obj.start_time <= current_end

\* The loop of lines 109-121 from the i-th pass on, and the last period added
\* by lines 124-128.
RECURSIVE merge_from(_, _, _, _, _)
merge_from(pass_list, i, current_start, current_end, merged) ==
    IF i > Len(pass_list)
    THEN Append(merged, CoveragePeriod(current_start, current_end))
    ELSE IF extends_current(pass_list[i], current_end)
         THEN merge_from(pass_list, i + 1, current_start,
                         Max(current_end, pass_list[i].end_time), merged)
         ELSE merge_from(pass_list, i + 1, pass_list[i].start_time,
                         pass_list[i].end_time,
                         Append(merged, CoveragePeriod(current_start, current_end)))

merge_coverage_periods(pass_list) ==
    IF pass_list = <<>>
    THEN <<>>
    ELSE merge_from(pass_list, 2, pass_list[1].start_time, pass_list[1].end_time, <<>>)

\* The variant of pass_duration that leaves out the division by 60.
pass_duration_seconds(pass_start, pass_end) == Rat(pass_end - pass_start, 1)

\* Line 421: duration = (pass_end - pass_start).total_seconds() / 60.0.
pass_duration(pass_start, pass_end) == Minutes(pass_end - pass_start)

\* A PassPrediction (lines 426-435), without the fields no computation
\* reads (satellite_name, azimuth, pass_type).
Pass(sat_id, pass_start, pass_end, max_elev) ==
    [satellite_id |-> sat_id, start_time |-> pass_start, end_time |-> pass_end,
     duration |-> pass_duration(pass_start, pass_end),
     max_elevation |-> max_elev]

\* Passes as the predictor builds them (start before end), and the lists of
\* them sorted by start time that calculate_coverage_pattern hands over.
MergePasses ==
    UNION {{Pass("sat1", s, e, 10) : e \in (s + 1)..MaxMergeTime} :
              s \in 0..MaxMergeTime}

SortedByStart(pass_list) ==
    \A i \in 1..(Len(pass_list) - 1) :
        pass_list[i].start_time <= pass_list[i + 1].start_time

MergeInputs ==
    UNION {{q \in [1..n -> MergePasses] : SortedByStart(q)} : n \in 0..MaxPasses}

MergeIdle == mergePc = "idle" /\ mergeIn = <<>> /\ mergeOut = <<>>

MergeInit ==
    /\ mergePc = "call"
    /\ mergeIn \in MergeInputs
    /\ mergeOut = <<>>

MergeCoveragePeriods ==
    /\ mergePc = "call"
    /\ mergeOut' = merge_coverage_periods(mergeIn)
    /\ mergePc' = "done"
    /\ UNCHANGED <<mergeIn, colVars, kepVars, passVars, covVars, extVars>>

(***************************************************************************)
(* The satellites as the observer sees them.                                *)
(*                                                                         *)
(* satellite.sgp4(jd, fr) followed by _calculate_elevation is a             *)
(* deterministic function of the sample time.  A profile fixes it: the      *)
(* satellite is in view during [rise, rise + dur) and, when dur2 > 0,       *)
(* during a second window that opens gap seconds after the first closes.    *)
(* In view the elevation is hi during the first and last 30 s of the        *)
(* window and pk in between; out of view it is OutOfView.  fault names the  *)
(* samples at which sgp4 returns a non-zero error code ("err") or the       *)
(* sample raises ("exc"): at all of them, or at every fifth 30 s slot.      *)
(***************************************************************************)
OutOfView == -30

Window1(prof) == [start |-> prof.rise, end |-> prof.rise + prof.dur]
Window2(prof) ==
    [start |-> prof.rise + prof.dur + prof.gap,
     end |-> prof.rise + prof.dur + prof.gap + prof.dur2]

InWindow(w, t) == w.start <= t /\ t < w.end
WindowLevel(prof, w, t) ==
    IF t < w.start + 30 \/ t >= w.end - 30 THEN prof.hi ELSE prof.pk

Elevation(prof, t) ==
    IF InWindow(Window1(prof), t) THEN WindowLevel(prof, Window1(prof), t)
    ELSE IF InWindow(Window2(prof), t) THEN WindowLevel(prof, Window2(prof), t)
    ELSE OutOfView

Faulty(prof, t) ==
    CASE prof.fault \in {"err_all", "exc_all"} -> TRUE
      [] prof.fault \in {"err_some", "exc_some"} -> ((t \div 30) % 5) = 2
      [] OTHER -> FALSE

\* One sample: the outcome of lines 396-410 (and 517-528) at time t.
Sample(prof, t) ==
    IF Faulty(prof, t)
    THEN [kind |-> IF prof.fault \in {"err_all", "err_some"} THEN "err" ELSE "exc",
          elevation |-> 0]
    ELSE [kind |-> "ok", elevation |-> Elevation(prof, t)]

(***************************************************************************)
(* SatellitePhysicsEngine.predict_orbital_passes and the searches it runs  *)
(***************************************************************************)
\* timedelta(minutes=1): the step of the scan (lines 404, 440, 442, 446).
ScanStepSeconds == 60
\* timedelta(minutes=5): the skip after an emitted pass (line 438).
GuardSeconds == 300
\* search_duration = timedelta(minutes=30) (line 509).
SearchDurationSeconds == 1800
\* step_size = timedelta(seconds=30) (line 510).
StepSizeSeconds == 30
\* Python's None for a time.
None == -1

\* start_time = datetime.utcnow() is the origin of time;
\* end_time = start_time + timedelta(days=days_ahead).
start_time == 0
end_time == start_time + query.horizon_min * 60

\* The variant of sort_by_start_time that leaves the list as it was built.
not_sorted(seq) == seq

\* list.sort(key=lambda p: p.start_time): stable, by insertion.
RECURSIVE insert_by_start(_, _)
insert_by_start(sorted, p) ==
    IF sorted = <<>> THEN <<p>>
    ELSE IF sorted[Len(sorted)].start_time <= p.start_time
         THEN Append(sorted, p)
         ELSE Append(insert_by_start(SubSeq(sorted, 1, Len(sorted) - 1), p),
                     sorted[Len(sorted)])

RECURSIVE sort_prefix(_, _)
sort_prefix(seq, n) ==
    IF n = 0 THEN <<>> ELSE insert_by_start(sort_prefix(seq, n - 1), seq[n])

sort_by_start_time(seq) == sort_prefix(seq, Len(seq))

\* The variant of track_max_elevation with the comparison turned round.
track_min_elevation(elevation, max_elevation) ==
    IF elevation < max_elevation THEN elevation ELSE max_elevation

\* Lines 535-536: the running maximum of the elevation.
track_max_elevation(elevation, max_elevation) ==
    IF elevation > max_elevation THEN elevation ELSE max_elevation

\* The tests of lines 413 and 530.
above_minimum(elevation, min_elevation) == elevation >= min_elevation

\* The locals of _find_pass_boundaries at its first iteration (lines 503-513).
find_init(search_start) ==
    [start_time |-> search_start, current_time |-> search_start,
     in_pass |-> FALSE, pass_start |-> None, pass_end |-> None,
     max_elevation |-> 0]

NoFind == find_init(None)

CurrentSatellite == satellite_ids[sat_idx]
CurrentProfile == profile[CurrentSatellite]

NoQuery ==
    [satellite_ids_is_none |-> FALSE, satellite_ids |-> <<>>,
     horizon_min |-> 0, min_elevation |-> 0]

\* list(self.satellites.keys()): the registered ids in insertion order.
RegistryKeys == SelectSeq(<<"sat1", "sat2">>, LAMBDA s : s \in DOMAIN profile)

PassIdle ==
    /\ pc = "idle"
    /\ query = NoQuery
    /\ satellite_ids = <<>> /\ sat_idx = 0 /\ predictions = <<>> /\ passes = <<>>
    /\ current_time = 0 /\ find = NoFind

\* Lines 348-353: without ids, all the registered satellites are searched.
PredictOrbitalPasses ==
    /\ pc = "call"
    /\ satellite_ids' = IF query.satellite_ids_is_none
                        THEN RegistryKeys ELSE query.satellite_ids
    /\ predictions' = <<>>
    /\ sat_idx' = 1
    /\ pc' = "loop"
    /\ UNCHANGED <<profile, query, passes, current_time, find,
                   colVars, kepVars, mergeVars, covVars, extVars>>

\* Lines 355-357: an id that is not registered is passed over.
PredictSkipUnregistered ==
    /\ pc = "loop"
    /\ sat_idx <= Len(satellite_ids)
    /\ CurrentSatellite \notin DOMAIN profile
    /\ sat_idx' = sat_idx + 1
    /\ UNCHANGED <<profile, query, satellite_ids, pc, predictions, passes, current_time, find,
                   colVars, kepVars, mergeVars, covVars, extVars>>

\* Lines 359-367 and 390-391: _calculate_satellite_passes is entered.
CalculateSatellitePasses ==
    /\ pc = "loop"
    /\ sat_idx <= Len(satellite_ids)
    /\ CurrentSatellite \in DOMAIN profile
    /\ passes' = <<>>
    /\ current_time' = start_time
    /\ pc' = "scan"
    /\ UNCHANGED <<profile, query, satellite_ids, sat_idx, predictions, find,
                   colVars, kepVars, mergeVars, covVars, extVars>>

\* Lines 371-374: the aggregated list is sorted and returned.
PredictReturn ==
    /\ pc = "loop"
    /\ sat_idx > Len(satellite_ids)
    /\ predictions' = sort_by_start_time(predictions)
    /\ pc' = "done"
    /\ UNCHANGED <<profile, query, satellite_ids, sat_idx, passes, current_time, find,
                   colVars, kepVars, mergeVars, covVars, extVars>>

\* The scan that stays where it is.
scan_stay(t) == t

\* Lines 404, 440, 442 and 446: current_time += timedelta(minutes=1).
scan_step(t) == t + ScanStepSeconds

\* The test of line 515 that lets the search run one sample further.
search_open_at_end(f) == f.current_time <= f.start_time + SearchDurationSeconds

\* Line 515: current_time < start_time + search_duration.
search_open(f) == f.current_time < f.start_time + SearchDurationSeconds

\* Lines 393-412 and 441-446: a scan sample with an error code, an
\* exception or an elevation below the minimum; the scan moves on a minute.
ScanAdvance ==
    /\ pc = "scan"
    /\ current_time < end_time
    /\ LET s == Sample(CurrentProfile, current_time)
       IN  ~(s.kind = "ok" /\ above_minimum(s.elevation, query.min_elevation))
    /\ current_time' = scan_step(current_time)
    /\ UNCHANGED <<profile, query, satellite_ids, pc, sat_idx, predictions, passes, find,
                   colVars, kepVars, mergeVars, covVars, extVars>>

\* Lines 413-418 and 503-513: the sample is at or above the minimum and
\* _find_pass_boundaries is entered at the scan time.
ScanFindBoundaries ==
    /\ pc = "scan"
    /\ current_time < end_time
    /\ LET s == Sample(CurrentProfile, current_time)
       IN  s.kind = "ok" /\ above_minimum(s.elevation, query.min_elevation)
    /\ find' = find_init(current_time)
    /\ pc' = "find"
    /\ UNCHANGED <<profile, query, satellite_ids, sat_idx, predictions, passes, current_time,
                   colVars, kepVars, mergeVars, covVars, extVars>>

\* Lines 393, 448 and 369: the scan has reached end_time; the satellite's
\* passes are appended to the predictions.
ScanReturn ==
    /\ pc = "scan"
    /\ current_time >= end_time
    /\ predictions' = predictions \o passes
    /\ sat_idx' = sat_idx + 1
    /\ pc' = "loop"
    /\ UNCHANGED <<profile, query, satellite_ids, passes, current_time, find,
                   colVars, kepVars, mergeVars, covVars, extVars>>

\* One iteration of the loop of lines 515-548.
find_step(f, s, min_elevation) ==
    IF s.kind # "ok"
    THEN [f EXCEPT !.current_time = @ + StepSizeSeconds]
    ELSE IF above_minimum(s.elevation, min_elevation)
         THEN [f EXCEPT !.pass_start = IF f.in_pass THEN @ ELSE f.current_time,
                        !.in_pass = TRUE,
                        !.max_elevation = track_max_elevation(s.elevation, @),
                        !.current_time = @ + StepSizeSeconds]
         ELSE IF f.in_pass
              THEN [f EXCEPT !.pass_end = f.current_time]
              ELSE [f EXCEPT !.current_time = @ + StepSizeSeconds]

\* Whether the iteration leaves the loop by the break of line 542.
find_breaks(f, s, min_elevation) ==
    s.kind = "ok" /\ ~above_minimum(s.elevation, min_elevation) /\ f.in_pass

FindStep ==
    /\ pc = "find"
    /\ search_open(find)
    /\ LET s == Sample(CurrentProfile, find.current_time)
       IN  /\ find' = find_step(find, s, query.min_elevation)
           /\ pc' = IF find_breaks(find, s, query.min_elevation)
                    THEN "found" ELSE "find"
    /\ UNCHANGED <<profile, query, satellite_ids, sat_idx, predictions, passes, current_time,
                   colVars, kepVars, mergeVars, covVars, extVars>>

\* Lines 515 and 550: the 30-minute search is used up.
FindExhausted ==
    /\ pc = "find"
    /\ ~search_open(find)
    /\ pc' = "found"
    /\ UNCHANGED <<profile, query, satellite_ids, sat_idx, predictions, passes, current_time, find,
                   colVars, kepVars, mergeVars, covVars, extVars>>

\* The scan that goes on from the end of the pass.
no_skip(pass_end) == pass_end

\* Line 438: pass_end + timedelta(minutes=5).
skip_ahead(pass_end) == pass_end + GuardSeconds

\* Lines 420-438: both boundaries were found; the pass is emitted and the
\* scan skips to five minutes after its end.
EmitPass ==
    /\ pc = "found"
    /\ find.pass_start # None /\ find.pass_end # None
    /\ passes' = Append(passes, Pass(CurrentSatellite, find.pass_start,
                                     find.pass_end, find.max_elevation))
    /\ current_time' = skip_ahead(find.pass_end)
    /\ pc' = "scan"
    /\ UNCHANGED <<profile, query, satellite_ids, sat_idx, predictions, find,
                   colVars, kepVars, mergeVars, covVars, extVars>>

\* Lines 439-440: a boundary is missing; nothing is emitted and the scan
\* moves on a minute.
DropSearch ==
    /\ pc = "found"
    /\ ~(find.pass_start # None /\ find.pass_end # None)
    /\ current_time' = scan_step(current_time)
    /\ pc' = "scan"
    /\ UNCHANGED <<profile, query, satellite_ids, sat_idx, predictions, passes, find,
                   colVars, kepVars, mergeVars, covVars, extVars>>

PredictNext ==
    \/ PredictOrbitalPasses \/ PredictSkipUnregistered \/ CalculateSatellitePasses
    \/ PredictReturn \/ ScanAdvance \/ ScanFindBoundaries \/ ScanReturn
    \/ FindStep \/ FindExhausted \/ EmitPass \/ DropSearch

\* The profiles of the first satellite.
Profiles1 ==
    {p \in [rise : {-120, 0, 90, 300}, dur : {30, 90, 600, 1800, 2400},
            gap : {120, 420}, dur2 : {0, 90},
            hi : {-5, 12}, pk : {-2, 45},
            fault : {"none", "err_all", "exc_all", "err_some", "exc_some"}] :
        /\ (p.hi = -5) <=> (p.pk = -2)
        /\ p.dur2 = 0 => p.gap = 120
        /\ p.fault \in {"err_all", "exc_all"} =>
              (p.rise = 0 /\ p.dur = 600 /\ p.dur2 = 0 /\ p.hi = 12)
        /\ p.fault \in {"err_some", "exc_some"} => (p.dur2 = 0 /\ p.hi = 12)}

\* The profiles of the second satellite.
Profiles2 ==
    [rise : {0, 240}, dur : {120}, gap : {120}, dur2 : {0},
     hi : {12}, pk : {45}, fault : {"none"}]

Registry == {"sat1", "sat2"}

PassQueries ==
    {qr \in [satellite_ids_is_none : BOOLEAN,
             satellite_ids : {<<>>, <<"sat1">>, <<"ghost", "sat2", "sat1">>},
             horizon_min : {10, MaxHorizonMin},
             min_elevation : {-10, 10}] :
        qr.satellite_ids_is_none <=> (qr.satellite_ids = <<>>)}

PassInit ==
    /\ profile \in [Registry -> Profiles1 \cup Profiles2]
    /\ profile["sat1"] \in Profiles1
    /\ profile["sat2"] \in Profiles2
    /\ query \in PassQueries
    /\ query.satellite_ids = <<"sat1">> => profile["sat2"].rise = 0
    /\ pc = "call"
    /\ satellite_ids = <<>> /\ sat_idx = 0 /\ predictions = <<>> /\ passes = <<>>
    /\ current_time = 0 /\ find = NoFind

(***************************************************************************)
(* ConstellationManager.calculate_coverage_pattern                         *)
(*                                                                         *)
(* time_horizon_hours is given in minutes (covIn.time_horizon_min / 60      *)
(* hours), so that time_horizon_hours * 60 is covIn.time_horizon_min and    *)
(* days_ahead = time_horizon_hours / 24 is the same span of time.           *)
(***************************************************************************)
\* min_elevation=10.0 in the call of line 70.
CoverageMinElevation == 10

RECURSIVE sum_durations(_, _)
sum_durations(periods, n) ==
    IF n = 0 THEN Rat(0, 1)
    ELSE RatAdd(sum_durations(periods, n - 1), periods[n].duration)

NoCoverage ==
    [error |-> FALSE, coverage_periods |-> <<>>,
     total_coverage_time |-> Rat(0, 1), coverage_percentage |-> Rat(0, 1)]

\* Lines 74-91: the dictionary built from all the passes.
coverage_of(pass_list, time_horizon_min) ==
    LET sorted == sort_by_start_time(pass_list)
        merged_periods == merge_coverage_periods(sorted)
        total_coverage == sum_durations(merged_periods, Len(merged_periods))
    IN  IF sorted = <<>>
        THEN NoCoverage
        ELSE [error |-> FALSE,
              coverage_periods |-> merged_periods,
              total_coverage_time |-> total_coverage,
              coverage_percentage |->
                  Rat(total_coverage.num * 100,
                      total_coverage.den * time_horizon_min)]

CovIdle ==
    /\ covPc = "idle"
    /\ constellations = <<>> /\ coverage_maps = <<>>
    /\ covIn = [constellation_id |-> "", time_horizon_min |-> 0]
    /\ cov_idx = 0 /\ all_passes = <<>> /\ coverage_data = NoCoverage

\* Lines 49-50.
CoverageNotFound ==
    /\ covPc = "call"
    /\ covIn.constellation_id \notin DOMAIN constellations
    /\ coverage_data' = [NoCoverage EXCEPT !.error = TRUE]
    /\ covPc' = "done"
    /\ UNCHANGED <<constellations, coverage_maps, covIn, cov_idx, all_passes,
                   passVars, colVars, kepVars, mergeVars, extVars>>

\* Lines 52-66.
CalculateCoveragePattern ==
    /\ covPc = "call"
    /\ covIn.constellation_id \in DOMAIN constellations
    /\ all_passes' = <<>>
    /\ cov_idx' = 1
    /\ covPc' = "loop"
    /\ UNCHANGED <<constellations, coverage_maps, covIn, coverage_data,
                   passVars, colVars, kepVars, mergeVars, extVars>>

\* Lines 67-71: predict_orbital_passes is called for one satellite.
CoverageCallPredict ==
    /\ covPc = "loop"
    /\ cov_idx <= Len(constellations[covIn.constellation_id])
    /\ pc = "idle"
    /\ query' = [satellite_ids_is_none |-> FALSE,
                 satellite_ids |-> <<constellations[covIn.constellation_id][cov_idx]>>,
                 horizon_min |-> covIn.time_horizon_min,
                 min_elevation |-> CoverageMinElevation]
    /\ pc' = "call"
    /\ covPc' = "await"
    /\ UNCHANGED <<constellations, coverage_maps, covIn, cov_idx, all_passes,
                   coverage_data, profile, satellite_ids, sat_idx, predictions,
                   passes, current_time, find, colVars, kepVars, mergeVars, extVars>>

\* Line 72: the call has returned.
CoverageCollect ==
    /\ covPc = "await"
    /\ pc = "done"
    /\ all_passes' = all_passes \o predictions
    /\ cov_idx' = cov_idx + 1
    /\ pc' = "idle"
    /\ covPc' = "loop"
    /\ UNCHANGED <<constellations, coverage_maps, covIn, coverage_data,
                   profile, query, satellite_ids, sat_idx, predictions, passes,
                   current_time, find, colVars, kepVars, mergeVars, extVars>>

\* Lines 74-94.
CoverageReturn ==
    /\ covPc = "loop"
    /\ cov_idx > Len(constellations[covIn.constellation_id])
    /\ coverage_data' = coverage_of(all_passes, covIn.time_horizon_min)
    /\ coverage_maps' =
          [c \in DOMAIN coverage_maps \cup {covIn.constellation_id} |->
              IF c = covIn.constellation_id THEN coverage_data'
              ELSE coverage_maps[c]]
    /\ covPc' = "done"
    /\ UNCHANGED <<constellations, covIn, cov_idx, all_passes,
                   passVars, colVars, kepVars, mergeVars, extVars>>

CoverageNext ==
    \/ CoverageNotFound \/ CalculateCoveragePattern \/ CoverageCallPredict
    \/ CoverageCollect \/ CoverageReturn \/ PredictNext

\* The profiles of the first satellite of a constellation.
ProfilesCov ==
    {p \in Profiles1 : p.hi = 12 /\ p.fault \in {"none", "err_some"}}

CoverageInit ==
    /\ profile \in [Registry -> Profiles1 \cup Profiles2]
    /\ profile["sat1"] \in ProfilesCov
    /\ profile["sat2"] \in Profiles2
    /\ constellations \in
          [{"c1"} -> {<<"sat1">>, <<"sat1", "sat2">>, <<"sat1", "ghost">>}]
    /\ "sat2" \notin {constellations["c1"][i] : i \in DOMAIN constellations["c1"]}
          => profile["sat2"].rise = 0
    /\ coverage_maps = <<>>
    /\ covIn \in [constellation_id : {"c1", "c9"},
                  time_horizon_min : {10, MaxHorizonMin}]
    /\ covIn.constellation_id = "c9" =>
          (constellations["c1"] = <<"sat1">> /\ profile["sat1"].rise = 0
             /\ profile["sat1"].dur = 600 /\ profile["sat1"].fault = "none")
    /\ covPc = "call"
    /\ cov_idx = 0 /\ all_passes = <<>> /\ coverage_data = NoCoverage
    /\ pc = "idle"
    /\ query = NoQuery
    /\ satellite_ids = <<>> /\ sat_idx = 0 /\ predictions = <<>> /\ passes = <<>>
    /\ current_time = 0 /\ find = NoFind

(***************************************************************************)
(* OrbitalMechanics.calculate_hohmann_transfer                             *)
(*                                                                         *)
(* Radii are whole kilometres.  The floats of the transfer are modelled in *)
(* fixed point: reciprocals of a radius in units of 1e-9 per km, speeds in *)
(* whole metres per second, times in whole seconds.  math.sqrt is the      *)
(* integer square root of the fixed-point value, and every operation       *)
(* rounds as it is applied, in the order the code applies it.              *)
(***************************************************************************)
\* self.mu_earth in units of 100 km^3/s^2.
MuEarth100 == 3986
\* The scale of a reciprocal radius.
RecipScale == 1000000000
\* math.pi as the fraction PiNum / PiDen.
PiNum == 355
PiDen == 113

Abs(x) == IF x < 0 THEN -x ELSE x

RECURSIVE sqrt_between(_, _, _)
sqrt_between(x, lo, hi) ==
    IF lo >= hi THEN lo
    ELSE LET mid == (lo + hi + 1) \div 2
         IN  IF mid * mid <= x THEN sqrt_between(x, mid, hi)
             ELSE sqrt_between(x, lo, mid - 1)

\* math.sqrt of a value below 2^31.
Sqrt(x) == sqrt_between(x, 0, 46340)

\* math.sqrt(self.mu_earth * recip), recip in units of 1e-9 per km; m/s.
speed_of(recip) == Sqrt((recip * MuEarth100) \div 10)

\* Lines 156 and 159: 2 / r - 1 / a_transfer, with a_transfer = (r1 + r2) / 2.
transfer_recip(r, r1, r2) ==
    (2 * RecipScale) \div r - (2 * RecipScale) \div (r1 + r2)

\* Lines 162-163: 1 / r.
circular_recip(r) == RecipScale \div r

\* Lines 171-172: half the period of the transfer orbit, in seconds.
hohmann_transfer_time(r1, r2) ==
    LET a2 == r1 + r2
        a_sq_over_mu == (((a2 * a2) \div 4) * 10) \div MuEarth100
        a_cu_over_mu == ((a_sq_over_mu \div 2) * a2) \div 1000
    IN  (Sqrt(a_cu_over_mu) * PiNum) \div PiDen

\* The total that leaves out the second burn.
hohmann_dv_first_burn(dv1, dv2) == dv1

\* Line 168.
hohmann_dv_total(dv1, dv2) == dv1 + dv2

\* Lines 153-182.
calculate_hohmann_transfer(r1, r2) ==
    LET v1_transfer == speed_of(transfer_recip(r1, r1, r2))
        v2_transfer == speed_of(transfer_recip(r2, r1, r2))
        v1_circular == speed_of(circular_recip(r1))
        v2_circular == speed_of(circular_recip(r2))
        dv1 == Abs(v1_transfer - v1_circular)
        dv2 == Abs(v2_circular - v2_transfer)
    IN  [delta_v1 |-> dv1,
         delta_v2 |-> dv2,
         delta_v_total |-> hohmann_dv_total(dv1, dv2),
         transfer_time |-> hohmann_transfer_time(r1, r2)]

HohmannRadii == {6678, 6778, 7000, 7001, 7500, MaxRadius}

HohIdle == hohIn = <<>> /\ hohOut = <<>>

HohInit == hohIn = <<>> /\ hohOut = <<>>

CalculateHohmannTransfer ==
    /\ Len(hohIn) < MaxHohmannCalls
    /\ \E r1 \in HohmannRadii, r2 \in HohmannRadii :
          /\ hohIn' = Append(hohIn, [r1 |-> r1, r2 |-> r2])
          /\ hohOut' = Append(hohOut, calculate_hohmann_transfer(r1, r2))
    /\ UNCHANGED <<manPc, manIn, manOut, skPc, skIn, skOut, notOrb>>

(***************************************************************************)
(* OrbitalMechanics.calculate_orbital_maneuver                             *)
(*                                                                         *)
(* An orbit is the dictionary of its elements; eccentricity is given in    *)
(* thousandths (ecc1000), angles in whole degrees.  manIn.poliastro is     *)
(* POLIASTRO_AVAILABLE, which the installation decides.                    *)
(***************************************************************************)
\* Lines 218 and 241: the change of semi-major axis (km) that is planned.
ManeuverThresholdKm == 1

NoManeuver ==
    [maneuver_type |-> "", delta_v_total |-> 0, transfer_time |-> None,
     details |-> FALSE]

\* Lines 238-249.
calculate_maneuver_fallback(current_orbit, target_orbit) ==
    LET r1 == current_orbit.semi_major_axis
        r2 == target_orbit.semi_major_axis
        hohmann == calculate_hohmann_transfer(r1, r2)
    IN  IF Abs(r1 - r2) > ManeuverThresholdKm
        THEN [maneuver_type |-> "hohmann_transfer",
              delta_v_total |-> hohmann.delta_v_total,
              transfer_time |-> hohmann.transfer_time,
              details |-> FALSE]
        ELSE [maneuver_type |-> "none", delta_v_total |-> 0,
              transfer_time |-> None, details |-> FALSE]

\* Lines 191-229.
calculate_orbital_maneuver(current_orbit, target_orbit, poliastro) ==
    IF ~poliastro
    THEN calculate_maneuver_fallback(current_orbit, target_orbit)
    ELSE LET a1 == current_orbit.semi_major_axis
             a2 == target_orbit.semi_major_axis
             hohmann == calculate_hohmann_transfer(a1, a2)
         IN  IF Abs(a1 - a2) > ManeuverThresholdKm
             THEN [maneuver_type |-> "hohmann_transfer",
                   delta_v_total |-> hohmann.delta_v_total,
                   transfer_time |-> hohmann.transfer_time,
                   details |-> TRUE]
             ELSE [maneuver_type |-> "none", delta_v_total |-> 0,
                   transfer_time |-> None, details |-> FALSE]

Orbits ==
    [semi_major_axis : {7000, 7001, 7002, MaxRadius},
     ecc1000 : {1, 2, 100},
     inclination : {51, 98},
     right_ascension : {0, 120}]

NoOrbit ==
    [semi_major_axis |-> 0, ecc1000 |-> 0, inclination |-> 0,
     right_ascension |-> 0]

NoManeuverInput ==
    [current_orbit |-> NoOrbit, target_orbit |-> NoOrbit, poliastro |-> FALSE]

ManIdle == manPc = "idle" /\ manIn = NoManeuverInput /\ manOut = NoManeuver

ManInit ==
    /\ manPc = "call"
    /\ manIn \in [current_orbit : Orbits, target_orbit : Orbits,
                  poliastro : BOOLEAN]
    /\ manOut = NoManeuver

CalculateOrbitalManeuver ==
    /\ manPc = "call"
    /\ manOut' = calculate_orbital_maneuver(manIn.current_orbit,
                                            manIn.target_orbit,
                                            manIn.poliastro)
    /\ manPc' = "done"
    /\ UNCHANGED <<manIn, hohIn, hohOut, skPc, skIn, skOut, notOrb>>

(***************************************************************************)
(* OrbitalMechanics.calculate_station_keeping                              *)
(*                                                                         *)
(* Here an orbit gives its semi-major axis in tenths of a kilometre (a10), *)
(* its inclination in tenths of a degree (inc10) and its eccentricity in   *)
(* ten-thousandths (ecc10000), so that each tolerance of the code is a     *)
(* whole number.  A delta-v is in millimetres per second.  The orbits are  *)
(* closed orbits around the Earth (a10 > 0).                               *)
(***************************************************************************)
\* Line 302: 0.1 km.
ToleranceA10 == 1
\* Line 313: 0.1 degree.
ToleranceInc10 == 1
\* Line 323: 0.001.
ToleranceEcc10000 == 10
\* math.radians of a tenth of a degree, in microradians.
MicroradPerTenthDegree == 1745

\* The comparison that also corrects a drift equal to the tolerance.
out_of_tolerance_or_at(drift, tolerance) == Abs(drift) >= tolerance

\* Lines 302, 313 and 323.
out_of_tolerance(drift, tolerance) == Abs(drift) > tolerance

\* math.sin of an angle in microradians, to the third order; microradians.
Sin(x) == x - ((((x * x) \div 1000000) * x) \div 6000000)

\* Line 305: (mu / (2 r^2)) * |da|.
dv_semi_major_axis(a10, da10) ==
    LET r == a10 \div 10
        per_km == (MuEarth100 * 100000) \div ((2 * r * r) \div 1000)
    IN  (per_km * Abs(da10)) \div 10

\* Lines 314 and 324: math.sqrt(mu / a), in m/s.
circular_speed(a10) == speed_of(circular_recip(a10 \div 10))

\* Lines 314-315: 2 v sin(|di| / 2).
dv_inclination(a10, di10) ==
    (2 * circular_speed(a10)
       * Sin((Abs(di10) * MicroradPerTenthDegree) \div 2)) \div 1000

\* Lines 324-325: v |de|.
dv_eccentricity(a10, de10000) == (circular_speed(a10) * Abs(de10000)) \div 10

RECURSIVE sum_delta_v(_, _)
sum_delta_v(corrections, keys) ==
    IF keys = {} THEN 0
    ELSE LET k == CHOOSE x \in keys : TRUE
         IN  corrections[k].delta_v + sum_delta_v(corrections, keys \ {k})

\* Lines 298-337.
calculate_station_keeping(current_orbit, target_orbit) ==
    LET da == target_orbit.a10 - current_orbit.a10
        di == target_orbit.inc10 - current_orbit.inc10
        de == target_orbit.ecc10000 - current_orbit.ecc10000
        keys == {k \in {"semi_major_axis", "inclination", "eccentricity"} :
                    \/ k = "semi_major_axis" /\ out_of_tolerance(da, ToleranceA10)
                    \/ k = "inclination" /\ out_of_tolerance(di, ToleranceInc10)
                    \/ k = "eccentricity" /\ out_of_tolerance(de, ToleranceEcc10000)}
        corrections ==
            [k \in keys |->
                CASE k = "semi_major_axis" ->
                        [delta_v |-> dv_semi_major_axis(current_orbit.a10, da),
                         direction |-> IF da > 0 THEN "prograde" ELSE "retrograde"]
                  [] k = "inclination" ->
                        [delta_v |-> dv_inclination(current_orbit.a10, di),
                         direction |-> "normal"]
                  [] OTHER ->
                        [delta_v |-> dv_eccentricity(current_orbit.a10, de),
                         direction |-> "tangential"]]
    IN  [corrections_needed |-> corrections,
         total_delta_v |-> sum_delta_v(corrections, keys),
         station_keeping_required |-> Cardinality(keys) > 0]

StationOrbits ==
    [a10 : {70000, 70001, 70002, 70000 + MaxDriftA10},
     inc10 : {980, 981, 982, 985},
     ecc10000 : {10, 20, 21}]

NoStationOrbit == [a10 |-> 0, inc10 |-> 0, ecc10000 |-> 0]
NoStationInput == [current_orbit |-> NoStationOrbit, target_orbit |-> NoStationOrbit]
NoStationResult == calculate_station_keeping(NoStationOrbit, NoStationOrbit)

SkIdle == skPc = "idle" /\ skIn = NoStationInput /\ skOut = NoStationResult

SkInit ==
    /\ skPc = "call"
    /\ skIn \in [current_orbit : StationOrbits, target_orbit : StationOrbits]
    /\ skOut = NoStationResult

CalculateStationKeeping ==
    /\ skPc = "call"
    /\ skOut' = calculate_station_keeping(skIn.current_orbit, skIn.target_orbit)
    /\ skPc' = "done"
    /\ UNCHANGED <<skIn, manPc, manIn, manOut, hohIn, hohOut, notOrb>>

(***************************************************************************)
(* SatellitePhysicsEngine._lat_lng_alt_to_eci and _eci_to_lat_lng_alt      *)
(*                                                                         *)
(* Angles are whole degrees, lengths are in units of 250 m.  A float is a  *)
(* record [m, lvl]: the fixed-point mantissa m (a factor in units of       *)
(* 1/Scale, a length in units of 250 m) of a number of the order of        *)
(* magnitude 1.2e-16^lvl.  Level 0 holds the ordinary numbers.  Level 1    *)
(* holds what math.cos and math.sin return where the real function is 0:   *)
(* math.sin(math.pi) is 1.2e-16 and math.cos(math.pi / 2) is half of it,   *)
(* and the sign and the ratio of such values decide what math.atan2        *)
(* returns.                                                                *)
(* math.sin(0.0) is exactly 0.  A sum keeps the terms of the lowest level, *)
(* as the rounding of a float sum does.                                    *)
(***************************************************************************)
Scale == 10000
\* earth_radius = 6371.0 km.
EarthRadius == 25484

\* math.sin of 0, 1, ..., 90 degrees, in units of 1/Scale.
SinTable ==
    <<0, 175, 349, 523, 698, 872, 1045, 1219, 1392, 1564,
      1736, 1908, 2079, 2250, 2419, 2588, 2756, 2924, 3090, 3256,
      3420, 3584, 3746, 3907, 4067, 4226, 4384, 4540, 4695, 4848,
      5000, 5150, 5299, 5446, 5592, 5736, 5878, 6018, 6157, 6293,
      6428, 6561, 6691, 6820, 6947, 7071, 7193, 7314, 7431, 7547,
      7660, 7771, 7880, 7986, 8090, 8192, 8290, 8387, 8480, 8572,
      8660, 8746, 8829, 8910, 8988, 9063, 9135, 9205, 9272, 9336,
      9397, 9455, 9511, 9563, 9613, 9659, 9703, 9744, 9781, 9816,
      9848, 9877, 9903, 9925, 9945, 9962, 9976, 9986, 9994, 9998,
      10000>>

Fl(m, lvl) == [m |-> m, lvl |-> lvl]

\* Division that rounds to the nearest, b > 0.
Quot(a, b) ==
    IF a < 0 THEN -((2 * (-a) + b) \div (2 * b)) ELSE (2 * a + b) \div (2 * b)

\* math.sin(deg * math.pi / 180.0), -180 <= deg <= 180.
sin_deg(deg) ==
    LET b == Abs(deg)
        sign == IF deg < 0 THEN -1 ELSE 1
    IN  IF b = 180 THEN Fl(sign * Scale, 1)
        ELSE IF b <= 90 THEN Fl(sign * SinTable[b + 1], 0)
        ELSE Fl(sign * SinTable[180 - b + 1], 0)

\* math.cos(deg * math.pi / 180.0), -180 <= deg <= 180.
cos_deg(deg) ==
    LET b == Abs(deg)
    IN  IF b = 90 THEN Fl(Scale \div 2, 1)
        ELSE IF b < 90 THEN Fl(SinTable[90 - b + 1], 0)
        ELSE Fl(-SinTable[b - 90 + 1], 0)

\* The product of a length or a factor with a factor.
FlMul(a, b) ==
    LET m == Quot(a.m * b.m, Scale)
    IN  IF m = 0 THEN Fl(0, 0) ELSE Fl(m, a.lvl + b.lvl)

FlSquare(a) == IF a.m = 0 THEN Fl(0, 0) ELSE Fl(a.m * a.m, 2 * a.lvl)

\* a + b + c of three squares.
FlSum3(a, b, c) ==
    LET terms == {t \in {a, b, c} : t.m # 0}
        lowest == CHOOSE l \in {t.lvl : t \in terms} :
                     \A t \in terms : l <= t.lvl
        part(t) == IF t.m # 0 /\ t.lvl = lowest THEN t.m ELSE 0
    IN  IF terms = {} THEN Fl(0, 0)
        ELSE Fl(part(a) + part(b) + part(c), lowest)

\* Lines 477-487.
lat_lng_alt_to_eci(lat, lng, alt) ==
    LET r == Fl(EarthRadius + alt, 0)
    IN  [x |-> FlMul(FlMul(r, cos_deg(lat)), cos_deg(lng)),
         y |-> FlMul(FlMul(r, cos_deg(lat)), sin_deg(lng)),
         z |-> FlMul(r, sin_deg(lat))]

\* The first angle of lo..hi whose sine is at least the ratio.
RECURSIVE first_sine_from(_, _, _)
first_sine_from(ratio, lo, hi) ==
    IF lo >= hi THEN lo
    ELSE LET mid == (lo + hi) \div 2
         IN  IF SinTable[mid + 1] >= ratio THEN first_sine_from(ratio, lo, mid)
             ELSE first_sine_from(ratio, mid + 1, hi)

\* The angle of 0..90 whose sine is nearest to the ratio.
nearest_sine(ratio) ==
    LET a == first_sine_from(ratio, 0, 90)
    IN  IF a > 0 /\ ratio - SinTable[a] <= Abs(SinTable[a + 1] - ratio)
        THEN a - 1 ELSE a

\* math.asin(z / r) * 180.0 / math.pi, to the nearest degree.
asin_deg(z, r) ==
    LET ratio == IF z.m = 0 \/ z.lvl > r.lvl THEN 0
                 ELSE Quot(z.m * Scale, r.m)
    IN  IF ratio < 0 THEN -nearest_sine(-ratio) ELSE nearest_sine(ratio)

\* On which side of the direction of a degrees (0..90) the direction of
\* (x, y), x >= 0 and y >= 0, lies: negative while a is short of it.
cross_at(y, x, a) ==
    Quot(x * SinTable[a + 1], Scale) - Quot(y * SinTable[91 - a], Scale)

\* The first angle of lo..hi that is not short of the direction of (x, y).
RECURSIVE first_direction_from(_, _, _, _)
first_direction_from(y, x, lo, hi) ==
    IF lo >= hi THEN lo
    ELSE LET mid == (lo + hi) \div 2
         IN  IF cross_at(y, x, mid) >= 0 THEN first_direction_from(y, x, lo, mid)
             ELSE first_direction_from(y, x, mid + 1, hi)

\* math.atan2(y, x) for x >= 0 and y >= 0 of the same level.
quadrant_angle(y, x) ==
    LET a == first_direction_from(y, x, 0, 90)
    IN  IF a > 0 /\ Abs(cross_at(y, x, a - 1)) <= Abs(cross_at(y, x, a))
        THEN a - 1 ELSE a

\* math.atan2(y, x) for x and y of the same level, neither of them 0.
same_level_angle(y, x) ==
    LET base == quadrant_angle(Abs(y), Abs(x))
        half == IF x > 0 THEN base ELSE 180 - base
    IN  IF y > 0 THEN half ELSE -half

\* The arguments exchanged.
atan2_deg_swapped(y, x) ==
    CASE x.m = 0 /\ y.m = 0 -> 0
      [] x.m = 0 \/ (y.m # 0 /\ y.lvl < x.lvl) ->
            IF y.m > 0 THEN 0 ELSE IF x.m >= 0 THEN 180 ELSE -180
      [] y.m = 0 \/ x.lvl < y.lvl -> IF x.m > 0 THEN 90 ELSE -90
      [] OTHER -> same_level_angle(x.m, y.m)

\* math.atan2(y, x) * 180.0 / math.pi, to the nearest degree.
atan2_deg(y, x) ==
    CASE x.m = 0 /\ y.m = 0 -> 0
      [] y.m = 0 \/ (x.m # 0 /\ y.lvl > x.lvl) ->
            IF x.m > 0 THEN 0 ELSE IF y.m >= 0 THEN 180 ELSE -180
      [] x.m = 0 \/ x.lvl > y.lvl -> IF y.m > 0 THEN 90 ELSE -90
      [] OTHER -> same_level_angle(y.m, x.m)

\* Line 274.
eci_radius(position) ==
    LET sum == FlSum3(FlSquare(position.x), FlSquare(position.y),
                      FlSquare(position.z))
    IN  Fl(Sqrt(sum.m), sum.lvl \div 2)

\* Lines 271-295.
eci_to_lat_lng_alt(position) ==
    LET r == eci_radius(position)
    IN  [lat |-> asin_deg(position.z, r),
         lng |-> atan2_deg(position.y, position.x),
         alt |-> r.m - EarthRadius]

Latitudes == {-90, -89, -60, -45, -1, 0, 1, 30, 45, 75, 89, 90}
Longitudes == {-180, -179, -135, -90, -30, -1, 0, 1, 60, 90, 91, 135, 179, 180}
Altitudes == {0, 4, 1600, MaxAltitude}

NoPoint == [lat |-> 0, lng |-> 0, alt |-> 0]
NoPosition == [x |-> Fl(0, 0), y |-> Fl(0, 0), z |-> Fl(0, 0)]

GeoIdle ==
    geoPc = "idle" /\ geoIn = NoPoint /\ geoEci = NoPosition /\ geoOut = NoPoint

GeoInit ==
    /\ geoPc = "call"
    /\ geoIn \in [lat : Latitudes, lng : Longitudes, alt : Altitudes]
    /\ geoEci = NoPosition
    /\ geoOut = NoPoint

LatLngAltToEci ==
    /\ geoPc = "call"
    /\ geoEci' = lat_lng_alt_to_eci(geoIn.lat, geoIn.lng, geoIn.alt)
    /\ geoPc' = "eci"
    /\ UNCHANGED <<geoIn, geoOut, notGeo>>

EciToLatLngAlt ==
    /\ geoPc = "eci"
    /\ geoOut' = eci_to_lat_lng_alt(geoEci)
    /\ geoPc' = "done"
    /\ UNCHANGED <<geoIn, geoEci, notGeo>>

(***************************************************************************)
(* SatellitePhysicsEngine: the registry, the refresh loop and              *)
(* get_satellite_position                                                  *)
(*                                                                         *)
(* The engine runs on one asyncio event loop.  A coroutine keeps the loop  *)
(* until it awaits something that suspends it; awaiting another coroutine  *)
(* of the engine does not.  initialize, one pass of _update_all_positions  *)
(* and get_satellite_position contain no such await and are one step each. *)
(* predict_orbital_passes contains none either (lines 337-550 await only   *)
(* _calculate_satellite_passes and _find_pass_boundaries), so that from    *)
(* its first step to its return nothing else is run.                       *)
(***************************************************************************)
\* predict_orbital_passes has started and has not returned.
QueryRunning == pc \notin {"idle", "call", "done"}

\* The event loop is free to run another task.
LoopFree == ~QueryRunning

\* Line 213.
load_satellite(satellites, sat_id, satellite) ==
    [s \in DOMAIN satellites \cup {sat_id} |->
        IF s = sat_id THEN satellite ELSE satellites[s]]

\* The load that leaves the metadata out.
load_metadata_lost(metadata, sat_id) == metadata

\* Lines 214-219.
load_metadata(metadata, sat_id) ==
    [s \in DOMAIN metadata \cup {sat_id} |->
        IF s = sat_id THEN [last_position |-> None] ELSE metadata[s]]

\* Lines 209-222 for one satellite: parsed says whether Satrec.twoline2rv
\* returned or raised.
load_one(engine, sat_id, parsed, satellite) ==
    IF parsed
    THEN [satellites |-> load_satellite(engine.satellites, sat_id, satellite),
          satellite_metadata |-> load_metadata(engine.satellite_metadata, sat_id)]
    ELSE engine

\* What a registered satellite can be.
EngineProfiles1 ==
    {p \in Profiles1 : p.rise = 0 /\ p.dur \in {600, 2400} /\ p.dur2 = 0
                        /\ p.hi = 12
                        /\ p.fault \in {"none", "err_some", "exc_some"}
                        /\ p.dur = 2400 => p.fault = "none"}
EngineProfiles2 == {p \in Profiles2 : p.rise = 0}

\* Lines 105-129, with SGP4_AVAILABLE.
Initialize ==
    /\ LoopFree
    /\ refPc = "none"
    /\ \E parsed1 \in BOOLEAN, parsed2 \in BOOLEAN,
          p1 \in EngineProfiles1, p2 \in EngineProfiles2 :
          LET engine0 == [satellites |-> profile,
                          satellite_metadata |-> satellite_metadata]
              engine1 == load_one(engine0, "sat1", parsed1, p1)
              engine2 == load_one(engine1, "sat2", parsed2, p2)
          IN  /\ profile' = engine2.satellites
              /\ satellite_metadata' = engine2.satellite_metadata
    /\ is_running' = TRUE
    /\ refPc' = "ready"
    /\ UNCHANGED <<posPc, posIn, posOut,
                   query, pc, satellite_ids, sat_idx, predictions, passes,
                   current_time, find,
                   colVars, kepVars, mergeVars, covVars, orbVars, geoVars, apiVars, cmVars, lifeVars, wsVars>>

\* The instants datetime.utcnow() returns to the refresh loop and the
\* timestamps of position requests, in seconds.
WallClock == {0, 60}

\* The refresh that gives up at the first satellite that fails.
update_until_failure(satellites, metadata, t) ==
    [s \in DOMAIN metadata |->
        IF \A r \in DOMAIN satellites : Sample(satellites[r], t).kind = "ok"
        THEN [last_position |-> t]
        ELSE metadata[s]]

\* Lines 238-267: the metadata after one pass over the satellites at time t.
update_all_positions(satellites, metadata, t) ==
    [s \in DOMAIN metadata |->
        IF s \in DOMAIN satellites /\ Sample(satellites[s], t).kind = "ok"
        THEN [last_position |-> t]
        ELSE metadata[s]]

\* Lines 226-229: the loop finds is_running set, refreshes, and sleeps.
RefreshCycle ==
    /\ LoopFree
    /\ refPc = "ready"
    /\ is_running
    /\ \E t \in WallClock :
          satellite_metadata' = update_all_positions(profile, satellite_metadata, t)
    /\ refPc' = "sleeping"
    /\ UNCHANGED <<is_running, posPc, posIn, posOut, passVars,
                   colVars, kepVars, mergeVars, covVars, orbVars, geoVars, apiVars, cmVars, lifeVars, wsVars>>

\* Line 229: asyncio.sleep(self.update_interval) is over.
RefreshTimer ==
    /\ refPc = "sleeping"
    /\ refPc' = "ready"
    /\ UNCHANGED <<satellite_metadata, is_running, posPc, posIn, posOut, passVars,
                   colVars, kepVars, mergeVars, covVars, orbVars, geoVars, apiVars, cmVars, lifeVars, wsVars>>

\* Line 226: the loop finds is_running cleared and ends.
RefreshExit ==
    /\ LoopFree
    /\ refPc = "ready"
    /\ ~is_running
    /\ refPc' = "stopped"
    /\ UNCHANGED <<satellite_metadata, is_running, posPc, posIn, posOut, passVars,
                   colVars, kepVars, mergeVars, covVars, orbVars, geoVars, apiVars, cmVars, lifeVars, wsVars>>

\* Lines 761-765.
Shutdown ==
    /\ LoopFree
    /\ is_running
    /\ is_running' = FALSE
    /\ UNCHANGED <<satellite_metadata, refPc, posPc, posIn, posOut, passVars,
                   colVars, kepVars, mergeVars, covVars, orbVars, geoVars, apiVars, cmVars, lifeVars, wsVars>>

\* Line 317: the propagation that is taken for good whatever it returned.
propagated_always(sample) == TRUE

\* Lines 315-317 and 333: sgp4 returned, with error code 0.
propagated(sample) == sample.kind = "ok"

\* The outcome of a call that returned None; logged is what the call wrote
\* to the log: nothing, the warning of line 318 or the error of line 334.
NonePosition == [is_none |-> TRUE, timestamp |-> 0, position |-> 0, logged |-> ""]

\* Lines 299-335.  The position is given as the observer sees it.
get_satellite_position(satellites, satellite_id, timestamp) ==
    IF satellite_id \notin DOMAIN satellites THEN NonePosition
    ELSE LET sample == Sample(satellites[satellite_id], timestamp)
         IN  IF propagated(sample)
             THEN [is_none |-> FALSE, timestamp |-> timestamp,
                   position |-> sample.elevation, logged |-> ""]
             ELSE [NonePosition EXCEPT
                     !.logged = IF sample.kind = "exc" THEN "error" ELSE "warning"]

NoPositionRequest == [satellite_id |-> "", timestamp |-> 0]

\* A caller asks for a position.
RequestPosition ==
    /\ posPc = "idle"
    /\ posIn' \in [satellite_id : {"sat1", "sat2", "ghost"}, timestamp : WallClock]
    /\ posPc' = "call"
    /\ UNCHANGED <<satellite_metadata, is_running, refPc, posOut, passVars,
                   colVars, kepVars, mergeVars, covVars, orbVars, geoVars, apiVars, cmVars, lifeVars, wsVars>>

GetSatellitePosition ==
    /\ LoopFree
    /\ posPc = "call"
    /\ posOut' = get_satellite_position(profile, posIn.satellite_id, posIn.timestamp)
    /\ posPc' = "done"
    /\ UNCHANGED <<satellite_metadata, is_running, refPc, posIn, passVars,
                   colVars, kepVars, mergeVars, covVars, orbVars, geoVars, apiVars, cmVars, lifeVars, wsVars>>

EngineQueries ==
    {qr \in PassQueries :
        /\ qr.min_elevation = 10
        /\ qr.satellite_ids # <<"sat1">>
        /\ qr.satellite_ids_is_none => qr.horizon_min = MaxHorizonMin
        /\ ~qr.satellite_ids_is_none => qr.horizon_min = 10}

\* A caller asks for the passes.
RequestPasses ==
    /\ pc = "idle"
    /\ query' \in EngineQueries
    /\ pc' = "call"
    /\ UNCHANGED <<profile, satellite_ids, sat_idx, predictions, passes,
                   current_time, find, engVars,
                   colVars, kepVars, mergeVars, covVars, orbVars, geoVars, apiVars, cmVars, lifeVars, wsVars>>

EngIdle ==
    /\ satellite_metadata = <<>> /\ is_running = FALSE /\ refPc = "none"
    /\ posPc = "idle" /\ posIn = NoPositionRequest /\ posOut = NonePosition

\* Lines 87-92: the engine as __init__ leaves it.
EngineInit == profile = <<>> /\ EngIdle /\ PassIdle

\* The engine with callers of get_satellite_position.
EngineNext ==
    \/ Initialize \/ RefreshCycle \/ RefreshTimer \/ RefreshExit \/ Shutdown
    \/ RequestPosition \/ GetSatellitePosition

\* The engine with a caller of predict_orbital_passes.
SchedulingNext ==
    \/ Initialize \/ RefreshCycle \/ RefreshTimer \/ RefreshExit \/ Shutdown
    \/ RequestPasses \/ PredictNext

(***************************************************************************)
(* initialize called again.  Every call of initialize that passes line 107 *)
(* creates a task of its own for _position_update_loop (line 126); refPc   *)
(* is the task of the first call, later_loops are the tasks of the calls   *)
(* after it.  The TLE of lines 178-207 are the same at every call, so the  *)
(* satellites that were loaded are loaded again, each with new metadata.   *)
(***************************************************************************)
\* Lines 209-222, for the satellites of the registry.
reload(satellites, metadata) ==
    LET engine0 == [satellites |-> satellites, satellite_metadata |-> metadata]
        again(engine, sat_id) ==
            IF sat_id \in DOMAIN satellites
            THEN load_one(engine, sat_id, TRUE, satellites[sat_id])
            ELSE engine
    IN  again(again(engine0, "sat1"), "sat2")

\* Lines 105-129, with SGP4_AVAILABLE, on an engine that was initialized.
InitializeAgain ==
    /\ LoopFree
    /\ refPc # "none"
    /\ Len(later_loops) < MaxLaterInitializeCalls
    /\ profile' = reload(profile, satellite_metadata).satellites
    /\ satellite_metadata' = reload(profile, satellite_metadata).satellite_metadata
    /\ is_running' = TRUE
    /\ later_loops' = Append(later_loops, "ready")
    /\ UNCHANGED <<refPc, posPc, posIn, posOut,
                   query, pc, satellite_ids, sat_idx, predictions, passes,
                   current_time, find,
                   colVars, kepVars, mergeVars, covVars, orbVars, geoVars, apiVars, cmVars, wsVars>>

\* Lines 226-229 in a later task.
LaterRefreshCycle ==
    /\ LoopFree
    /\ is_running
    /\ \E i \in DOMAIN later_loops :
          /\ later_loops[i] = "ready"
          /\ later_loops' = [later_loops EXCEPT ![i] = "sleeping"]
    /\ \E t \in WallClock :
          satellite_metadata' = update_all_positions(profile, satellite_metadata, t)
    /\ UNCHANGED <<is_running, refPc, posPc, posIn, posOut, passVars,
                   colVars, kepVars, mergeVars, covVars, orbVars, geoVars, apiVars, cmVars, wsVars>>

\* Line 229 in a later task.
LaterRefreshTimer ==
    /\ \E i \in DOMAIN later_loops :
          /\ later_loops[i] = "sleeping"
          /\ later_loops' = [later_loops EXCEPT ![i] = "ready"]
    /\ UNCHANGED <<engVars, passVars,
                   colVars, kepVars, mergeVars, covVars, orbVars, geoVars, apiVars, cmVars, wsVars>>

\* Line 226 in a later task.
LaterRefreshExit ==
    /\ LoopFree
    /\ ~is_running
    /\ \E i \in DOMAIN later_loops :
          /\ later_loops[i] = "ready"
          /\ later_loops' = [later_loops EXCEPT ![i] = "stopped"]
    /\ UNCHANGED <<engVars, passVars,
                   colVars, kepVars, mergeVars, covVars, orbVars, geoVars, apiVars, cmVars, wsVars>>

\* The engine through calls of initialize and shutdown.
LifecycleNext ==
    \/ Initialize \/ RefreshCycle \/ RefreshTimer \/ RefreshExit \/ Shutdown
    \/ InitializeAgain \/ LaterRefreshCycle \/ LaterRefreshTimer \/ LaterRefreshExit

\* asyncio runs a task whose sleep is over.
LifecycleFairness ==
    /\ WF_vars(RefreshTimer) /\ WF_vars(RefreshExit)
    /\ WF_vars(LaterRefreshTimer) /\ WF_vars(LaterRefreshExit)

(***************************************************************************)
(* The pass endpoints: GET /satellites/predictions and                     *)
(* GET /satellites/{satellite_id}/next-pass                                *)
(*                                                                         *)
(* apiIn.engine is what satellite_physics_engine.predict_orbital_passes    *)
(* does when it is called: it returns passes, returns none, or raises.     *)
(* A response is its status code, with whether the engine was called.      *)
(***************************************************************************)
Response(status, engine_called) ==
    [status |-> status, engine_called |-> engine_called]

\* Line 154.
latitude_valid(latitude) == -90 <= latitude /\ latitude <= 90

\* Line 157.
longitude_valid(longitude) == -180 <= longitude /\ longitude <= 180

\* Lines 152-185.
predict_orbital_passes_endpoint(latitude, longitude, engine) ==
    IF ~latitude_valid(latitude) THEN Response(400, FALSE)
    ELSE IF ~longitude_valid(longitude) THEN Response(400, FALSE)
    ELSE IF engine = "raises" THEN Response(500, TRUE)
    ELSE Response(200, TRUE)

\* Lines 196-227.
get_next_satellite_pass(latitude, longitude, engine) ==
    CASE engine = "raises" -> Response(500, TRUE)
      [] engine = "none" -> Response(404, TRUE)
      [] OTHER -> Response(200, TRUE)

ApiRequests ==
    [endpoint : {"predictions", "next-pass"},
     latitude : {-91, -90, 0, 90, 91, MaxCoordinate},
     longitude : {-181, -180, 0, 180, 181, MaxCoordinate},
     engine : {"passes", "none", "raises"}]

NoApiRequest == [endpoint |-> "", latitude |-> 0, longitude |-> 0, engine |-> ""]
NoResponse == Response(0, FALSE)

ApiIdle == apiPc = "idle" /\ apiIn = NoApiRequest /\ apiOut = NoResponse

ApiInit == apiPc = "call" /\ apiIn \in ApiRequests /\ apiOut = NoResponse

PredictOrbitalPassesEndpoint ==
    /\ apiPc = "call"
    /\ apiIn.endpoint = "predictions"
    /\ apiOut' = predict_orbital_passes_endpoint(apiIn.latitude, apiIn.longitude,
                                                 apiIn.engine)
    /\ apiPc' = "done"
    /\ UNCHANGED <<apiIn, notApi>>

GetNextSatellitePass ==
    /\ apiPc = "call"
    /\ apiIn.endpoint = "next-pass"
    /\ apiOut' = get_next_satellite_pass(apiIn.latitude, apiIn.longitude,
                                         apiIn.engine)
    /\ apiPc' = "done"
    /\ UNCHANGED <<apiIn, notApi>>

(***************************************************************************)
(* ConstellationManager.coordinate_multi_satellite_mission                 *)
(*                                                                         *)
(* A target area is given by its id; the ids of the areas of a mission     *)
(* differ, and so do the ids of its satellites.  misIn.visible are the     *)
(* satellites for which predict_orbital_passes finds a pass within the     *)
(* day, misIn.known says whether "mission_" + mission_id is a key of       *)
(* self.constellations, and misIn.members are the satellite_ids of that    *)
(* constellation.  A coverage result is given by the satellites whose      *)
(* passes it is computed from.                                             *)
(***************************************************************************)
\* The assignment that gives every area to the first satellite.
first_satellite(i, n) == 0

\* Line 200: i % len(satellite_ids).
round_robin(i, n) == i % n

\* Lines 199-201: the assignment after the areas 1..k.
RECURSIVE assign_areas(_, _, _)
assign_areas(sat_ids, target_areas, k) ==
    IF k = 0 THEN <<>>
    ELSE LET before == assign_areas(sat_ids, target_areas, k - 1)
             sat_id == sat_ids[round_robin(k - 1, Len(sat_ids)) + 1]
         IN  [a \in DOMAIN before \cup {target_areas[k]} |->
                 IF a = target_areas[k] THEN sat_id ELSE before[a]]

\* Lines 204-217: the timeline after the areas 1..k.
RECURSIVE timeline_of(_, _, _, _)
timeline_of(sat_ids, target_areas, visible, k) ==
    IF k = 0 THEN <<>>
    ELSE LET before == timeline_of(sat_ids, target_areas, visible, k - 1)
             sat_id == sat_ids[round_robin(k - 1, Len(sat_ids)) + 1]
         IN  IF sat_id \in visible
             THEN Append(before, [satellite_id |-> sat_id, area_id |-> target_areas[k]])
             ELSE before

NoPlan ==
    [error |-> FALSE, assignment |-> <<>>, timeline |-> <<>>,
     coverage_analysis |-> <<>>]

\* Lines 221-226 and 49-52: calculate_coverage_pattern for the constellation
\* "mission_" + mission_id.
mission_coverage(known, members) ==
    IF known
    THEN [error |-> FALSE, satellite_ids |-> members]
    ELSE [error |-> TRUE, satellite_ids |-> <<>>]

\* Lines 188-233.  With areas to assign and no satellite, line 200 divides
\* by zero, and the except of lines 231-233 returns the error.
coordinate_multi_satellite_mission(sat_ids, target_areas, visible, known, members) ==
    IF target_areas # <<>> /\ sat_ids = <<>>
    THEN [NoPlan EXCEPT !.error = TRUE]
    ELSE [error |-> FALSE,
          assignment |-> assign_areas(sat_ids, target_areas, Len(target_areas)),
          timeline |-> timeline_of(sat_ids, target_areas, visible, Len(target_areas)),
          coverage_analysis |->
              [a \in {target_areas[i] : i \in DOMAIN target_areas} |->
                  mission_coverage(known, members)]]

Injective(seq) ==
    \A i \in DOMAIN seq : \A j \in DOMAIN seq : seq[i] = seq[j] => i = j

ListsOf(ids, longest) ==
    {seq \in UNION {[1..n -> ids] : n \in 0..longest} : Injective(seq)}

MissionSatellites == {"sat1", "sat2", "sat3"}
MissionAreas == {"a1", "a2", "a3", "a4"}

NoMission ==
    [satellite_ids |-> <<>>, target_areas |-> <<>>, visible |-> {},
     known |-> FALSE, members |-> <<>>]

MisIdle == misPc = "idle" /\ misIn = NoMission /\ misOut = NoPlan

MisInit ==
    /\ misPc = "call"
    /\ misIn \in [satellite_ids : ListsOf(MissionSatellites, MaxMissionSatellites),
                  target_areas : ListsOf(MissionAreas, MaxTargetAreas),
                  visible : {{}, {"sat1"}},
                  known : BOOLEAN,
                  members : {<<>>, <<"sat1">>, <<"sat3", "sat2">>}]
    /\ misIn.known <=> misIn.members # <<>>
    /\ misOut = NoPlan

CoordinateMultiSatelliteMission ==
    /\ misPc = "call"
    /\ misOut' = coordinate_multi_satellite_mission(
                     misIn.satellite_ids, misIn.target_areas, misIn.visible,
                     misIn.known, misIn.members)
    /\ misPc' = "done"
    /\ UNCHANGED <<misIn, optPc, optIn, optOut, optimization_cache, notCm>>

(***************************************************************************)
(* ConstellationManager.optimize_satellite_positioning                     *)
(*                                                                         *)
(* optIn.coverage is, per target area, the dict calculate_coverage_pattern *)
(* returns: one with the key "coverage_percentage", or the error dict      *)
(* without it.  Percentages are Python floats.  They are modelled as       *)
(* binary floating point numbers of four significant bits, counted in      *)
(* units of 1/16 percent: every sum and every quotient is rounded to the   *)
(* nearest such number, ties to the even mantissa, as IEEE 754 does with   *)
(* 53 bits.                                                                *)
(***************************************************************************)
UnitsPerPercent == 16
\* Lines 172 and 174, in percent.
CoverageFloor == 50
AverageFloor == 70
SmallestMantissa == 8

\* The spacing of the floats around num / den: the largest power of two q
\* with SmallestMantissa * q <= num / den, and 1 below that.
RECURSIVE spacing_from(_, _, _)
spacing_from(q, num, den) ==
    IF SmallestMantissa * (2 * q) * den <= num
    THEN spacing_from(2 * q, num, den)
    ELSE q

\* num / den rounded to the nearest float, ties to even.
round_float(num, den) ==
    LET q == spacing_from(1, num, den)
        k == num \div (q * den)
        rest == num - k * q * den
    IN  IF 2 * rest < q * den THEN k * q
        ELSE IF 2 * rest > q * den THEN (k + 1) * q
        ELSE IF k % 2 = 0 THEN k * q ELSE (k + 1) * q

\* Line 152: coverage.get("coverage_percentage", 0.0).
get_coverage_percentage(coverage) ==
    IF "coverage_percentage" \in DOMAIN coverage
    THEN coverage.coverage_percentage
    ELSE 0

\* Lines 142-153.
coverage_results_of(coverages) ==
    [i \in DOMAIN coverages |-> get_coverage_percentage(coverages[i])]

\* sum(...) of line 156: the additions from left to right, each rounded.
RECURSIVE float_sum(_, _)
float_sum(values, k) ==
    IF k = 0 THEN 0 ELSE round_float(float_sum(values, k - 1) + values[k], 1)

\* Line 156.
avg_coverage_of(results) ==
    IF results # <<>>
    THEN round_float(float_sum(results, Len(results)), Len(results))
    ELSE 0

\* Line 157.
min_coverage_of(results) ==
    IF results # <<>>
    THEN CHOOSE v \in {results[i] : i \in DOMAIN results} :
             \A i \in DOMAIN results : v <= results[i]
    ELSE 0

\* Line 158.
max_coverage_of(results) ==
    IF results # <<>>
    THEN CHOOSE v \in {results[i] : i \in DOMAIN results} :
             \A i \in DOMAIN results : v >= results[i]
    ELSE 0

\* Lines 172-175.
recommendations_of(min_coverage, avg_coverage) ==
    (IF min_coverage < CoverageFloor * UnitsPerPercent
     THEN <<"add_more_satellites">> ELSE <<>>)
    \o (IF avg_coverage < AverageFloor * UnitsPerPercent
        THEN <<"adjust_orbital_parameters">> ELSE <<>>)

NoOptimization ==
    [error |-> FALSE, target_areas |-> 0, average_coverage |-> 0,
     minimum_coverage |-> 0, maximum_coverage |-> 0,
     coverage_results |-> <<>>, recommendations |-> <<>>]

\* Lines 135-182.
optimize_satellite_positioning(known, coverages) ==
    IF ~known THEN [NoOptimization EXCEPT !.error = TRUE]
    ELSE LET results == coverage_results_of(coverages)
             avg_coverage == avg_coverage_of(results)
             min_coverage == min_coverage_of(results)
             max_coverage == max_coverage_of(results)
         IN  [error |-> FALSE,
              target_areas |-> Len(coverages),
              average_coverage |-> avg_coverage,
              minimum_coverage |-> min_coverage,
              maximum_coverage |-> max_coverage,
              coverage_results |-> results,
              recommendations |-> recommendations_of(min_coverage, avg_coverage)]

\* Percentages that are floats of the model.
CoveragePercentages == {0, 14, 40, 56, 80}

CoverageDicts ==
    {[coverage_percentage |-> pct * UnitsPerPercent] : pct \in CoveragePercentages}
        \cup {[error |-> "Constellation not found"]}

OptInit ==
    /\ optPc = "call"
    /\ optIn \in [known : BOOLEAN,
                  coverage : UNION {[1..n -> CoverageDicts] : n \in 0..MaxOptimizeTargets}]
    /\ optOut = NoOptimization
    /\ optimization_cache = <<>>

OptimizeSatellitePositioning ==
    /\ optPc = "call"
    /\ optOut' = optimize_satellite_positioning(optIn.known, optIn.coverage)
    /\ optimization_cache' =
           IF optOut'.error THEN optimization_cache
           ELSE [c \in {"c1"} |-> optOut']
    /\ optPc' = "done"
    /\ UNCHANGED <<optIn, misPc, misIn, misOut, notCm>>

(***************************************************************************)
(* ConnectionManager of api/v1/endpoints/websocket.py                      *)
(*                                                                         *)
(* A manager is the record of its three fields; NoClient is a client_id    *)
(* that is not given.           A socket whose accept() raises leaves     *)
(* connect at line 19 with nothing changed.  The sends of one broadcast    *)
(* are taken as one step.                                                  *)
(***************************************************************************)
Sockets == {"w1", "w2"}
\* client_id = None, and any client_id that "if client_id" takes for false.
NoClient == ""
Agents == {"a1"}
RoomIds == {"agent_a1", "mission_m1"}

Manager(active, agents, rooms) ==
    [active_connections |-> active, agent_connections |-> agents,
     room_subscriptions |-> rooms]

ManagerNow == Manager(active_connections, agent_connections, room_subscriptions)

Range(seq) == {seq[i] : i \in DOMAIN seq}

\* list.remove(x): the list without the first x.
remove(seq, x) ==
    LET first == CHOOSE i \in DOMAIN seq :
                     seq[i] = x /\ \A j \in 1..(i - 1) : seq[j] # x
    IN  [i \in 1..(Len(seq) - 1) |-> IF i < first THEN seq[i] ELSE seq[i + 1]]

\* A dict with one key set.
with_key(dict, key, value) ==
    [k \in DOMAIN dict \cup {key} |-> IF k = key THEN value ELSE dict[k]]

\* A dict with one key deleted.
without_key(dict, key) == [k \in DOMAIN dict \ {key} |-> dict[k]]

\* Lines 18-28, after accept() returned.
connect(m, websocket, client_id) ==
    Manager(Append(m.active_connections, websocket),
            IF client_id # NoClient
            THEN with_key(m.agent_connections, client_id,
                          Append(IF client_id \in DOMAIN m.agent_connections
                                 THEN m.agent_connections[client_id] ELSE <<>>,
                                 websocket))
            ELSE m.agent_connections,
            with_key(m.room_subscriptions, websocket, {}))

\* Lines 30-43.
disconnect(m, websocket, client_id) ==
    Manager(IF websocket \in Range(m.active_connections)
            THEN remove(m.active_connections, websocket)
            ELSE m.active_connections,
            IF client_id # NoClient /\ client_id \in DOMAIN m.agent_connections
            THEN LET conns == m.agent_connections[client_id]
                     left == IF websocket \in Range(conns)
                             THEN remove(conns, websocket) ELSE conns
                 IN  IF left = <<>>
                     THEN without_key(m.agent_connections, client_id)
                     ELSE with_key(m.agent_connections, client_id, left)
            ELSE m.agent_connections,
            without_key(m.room_subscriptions, websocket))

\* Lines 45-49.
subscribe_to_room(m, websocket, room_id) ==
    IF websocket \in DOMAIN m.room_subscriptions
    THEN [m EXCEPT !.room_subscriptions[websocket] = @ \cup {room_id}]
    ELSE m

\* Lines 51-55.
unsubscribe_from_room(m, websocket, room_id) ==
    IF websocket \in DOMAIN m.room_subscriptions
    THEN [m EXCEPT !.room_subscriptions[websocket] = @ \ {room_id}]
    ELSE m

\* Lines 73-74 and 87-88: disconnect for the sockets of the list, in order.
RECURSIVE disconnect_each(_, _)
disconnect_each(m, disconnected) ==
    IF disconnected = <<>> THEN m
    ELSE disconnect_each(disconnect(m, Head(disconnected), NoClient), Tail(disconnected))

\* Lines 63-74: failing are the sockets whose send_text raises.
broadcast(m, failing) ==
    [sent |-> Range(m.active_connections),
     manager |-> disconnect_each(m, SelectSeq(m.active_connections,
                                              LAMBDA w : w \in failing))]

\* Lines 76-88.
broadcast_to_room(m, room_id, failing) ==
    LET receivers == {w \in DOMAIN m.room_subscriptions :
                          room_id \in m.room_subscriptions[w]}
        disconnected == SelectSeq(<<"w1", "w2">>,
                                  LAMBDA w : w \in receivers \cap failing)
    IN  [sent |-> receivers, manager |-> disconnect_each(m, disconnected)]

\* The manager becomes m; gone and sent are the new wsGone and wsSent.
ManagerBecomes(m, gone, sent) ==
    /\ active_connections' = m.active_connections
    /\ agent_connections' = m.agent_connections
    /\ room_subscriptions' = m.room_subscriptions
    /\ wsGone' = gone
    /\ wsSent' = sent

\* The lists of the model stay within MaxConnections entries.
RoomFor(m, websocket, client_id) ==
    /\ Len(m.active_connections) < MaxConnections
    /\ client_id # NoClient /\ client_id \in DOMAIN m.agent_connections
          => Len(m.agent_connections[client_id]) < MaxConnections

\* manager.connect(websocket, client_id).
Connect ==
    \E websocket \in Sockets, client_id \in Agents \cup {NoClient} :
        /\ RoomFor(ManagerNow, websocket, client_id)
        /\ ManagerBecomes(connect(ManagerNow, websocket, client_id),
                          wsGone \ {websocket}, {})
        /\ UNCHANGED notWs

\* manager.disconnect(websocket, client_id).
Disconnect ==
    \E websocket \in Sockets, client_id \in Agents \cup {NoClient} :
        /\ ManagerBecomes(disconnect(ManagerNow, websocket, client_id),
                          wsGone \cup {websocket}, {})
        /\ UNCHANGED notWs

SubscribeToRoom ==
    \E websocket \in Sockets, room_id \in RoomIds :
        /\ ManagerBecomes(subscribe_to_room(ManagerNow, websocket, room_id), wsGone, {})
        /\ UNCHANGED notWs

UnsubscribeFromRoom ==
    \E websocket \in Sockets, room_id \in RoomIds :
        /\ ManagerBecomes(unsubscribe_from_room(ManagerNow, websocket, room_id), wsGone, {})
        /\ UNCHANGED notWs

Broadcast ==
    \E failing \in SUBSET Sockets :
        LET done == broadcast(ManagerNow, failing)
        IN  /\ ManagerBecomes(done.manager, wsGone \cup (done.sent \cap failing), done.sent)
            /\ UNCHANGED notWs

BroadcastToRoom ==
    \E failing \in SUBSET Sockets, room_id \in RoomIds :
        LET done == broadcast_to_room(ManagerNow, room_id, failing)
        IN  /\ ManagerBecomes(done.manager, wsGone \cup (done.sent \cap failing), done.sent)
            /\ UNCHANGED notWs

\* Lines 128-140: the root endpoint receives subscribe_agent on a socket it
\* connected at line 120.  accepts says whether accept() returns when it
\* is called again; when it raises, line 196 disconnects the socket.
RootSubscribeAgent ==
    \E websocket \in Range(active_connections), agent_id \in Agents, accepts \in BOOLEAN :
        /\ accepts => RoomFor(ManagerNow, websocket, agent_id)
        /\ IF accepts
           THEN ManagerBecomes(
                    subscribe_to_room(connect(ManagerNow, websocket, agent_id),
                                      websocket, "agent_" \o agent_id),
                    wsGone \ {websocket}, {})
           ELSE ManagerBecomes(disconnect(ManagerNow, websocket, NoClient),
                               wsGone \cup {websocket}, {})
        /\ UNCHANGED notWs

WebsocketNext ==
    \/ Connect \/ Disconnect \/ SubscribeToRoom \/ UnsubscribeFromRoom
    \/ Broadcast \/ BroadcastToRoom \/ RootSubscribeAgent

(***************************************************************************)
(* Specifications                                                          *)
(***************************************************************************)
NoRegistry == profile = <<>>

OrbIdle == ManIdle /\ HohIdle /\ SkIdle
NoOptimizationInput == [known |-> FALSE, coverage |-> <<>>]
OptIdle == optPc = "idle" /\ optIn = NoOptimizationInput /\ optOut = NoOptimization /\ optimization_cache = <<>>
CmIdle == MisIdle /\ OptIdle
LifeIdle == later_loops = <<>>
\* Lines 12-16 of websocket.py: the manager as __init__ leaves it.
WsIdle ==
    /\ active_connections = <<>> /\ agent_connections = <<>>
    /\ room_subscriptions = <<>> /\ wsGone = {} /\ wsSent = {}
ExtIdle == OrbIdle /\ GeoIdle /\ EngIdle /\ ApiIdle /\ CmIdle /\ LifeIdle /\ WsIdle

InitCollision == ColInit /\ KepIdle /\ MergeIdle /\ PassIdle /\ NoRegistry /\ CovIdle /\ ExtIdle
NextCollision == CheckCollisionRisk
SpecCollision == InitCollision /\ [][NextCollision]_vars

InitKepler == KepInit /\ ColIdle /\ MergeIdle /\ PassIdle /\ NoRegistry /\ CovIdle /\ ExtIdle
NextKepler == KeplerianToCartesian
SpecKepler == InitKepler /\ [][NextKepler]_vars

InitMerge == MergeInit /\ ColIdle /\ KepIdle /\ PassIdle /\ NoRegistry /\ CovIdle /\ ExtIdle
NextMerge == MergeCoveragePeriods
SpecMerge == InitMerge /\ [][NextMerge]_vars

InitPass == PassInit /\ ColIdle /\ KepIdle /\ MergeIdle /\ CovIdle /\ ExtIdle
NextPass == PredictNext
SpecPass == InitPass /\ [][NextPass]_vars

\* The search as the event loop runs it: a coroutine that can go on does.
\* The satellites are named in the query, with a minimum of 10 degrees.
InitPassFair == InitPass /\ ~query.satellite_ids_is_none /\ query.min_elevation = 10
NextPassFair == PredictNext
SpecPassFair == InitPassFair /\ [][NextPassFair]_vars /\ WF_vars(NextPassFair)

InitCoverage == CoverageInit /\ ColIdle /\ KepIdle /\ MergeIdle /\ ExtIdle
NextCoverage == CoverageNext
SpecCoverage == InitCoverage /\ [][NextCoverage]_vars

BaseIdle == ColIdle /\ KepIdle /\ MergeIdle /\ PassIdle /\ NoRegistry /\ CovIdle

InitHohmann == HohInit /\ ManIdle /\ SkIdle /\ BaseIdle /\ GeoIdle /\ EngIdle /\ ApiIdle /\ CmIdle /\ LifeIdle /\ WsIdle
NextHohmann == CalculateHohmannTransfer
SpecHohmann == InitHohmann /\ [][NextHohmann]_vars

InitManeuver == ManInit /\ HohIdle /\ SkIdle /\ BaseIdle /\ GeoIdle /\ EngIdle /\ ApiIdle /\ CmIdle /\ LifeIdle /\ WsIdle
NextManeuver == CalculateOrbitalManeuver
SpecManeuver == InitManeuver /\ [][NextManeuver]_vars

InitStation == SkInit /\ ManIdle /\ HohIdle /\ BaseIdle /\ GeoIdle /\ EngIdle /\ ApiIdle /\ CmIdle /\ LifeIdle /\ WsIdle
NextStation == CalculateStationKeeping
SpecStation == InitStation /\ [][NextStation]_vars

InitGeodetic == GeoInit /\ OrbIdle /\ BaseIdle /\ EngIdle /\ ApiIdle /\ CmIdle /\ LifeIdle /\ WsIdle
NextGeodetic == LatLngAltToEci \/ EciToLatLngAlt
SpecGeodetic == InitGeodetic /\ [][NextGeodetic]_vars

InitEngine == EngineInit /\ ColIdle /\ KepIdle /\ MergeIdle /\ CovIdle /\ OrbIdle /\ GeoIdle /\ ApiIdle /\ CmIdle /\ LifeIdle /\ WsIdle
NextEngine == EngineNext
SpecEngine == InitEngine /\ [][NextEngine]_vars

InitScheduling == InitEngine
NextScheduling == SchedulingNext
SpecScheduling == InitScheduling /\ [][NextScheduling]_vars

InitApi == ApiInit /\ BaseIdle /\ OrbIdle /\ GeoIdle /\ EngIdle /\ CmIdle /\ LifeIdle /\ WsIdle
NextApi == PredictOrbitalPassesEndpoint \/ GetNextSatellitePass
SpecApi == InitApi /\ [][NextApi]_vars

InitWebsocket == WsIdle /\ BaseIdle /\ OrbIdle /\ GeoIdle /\ EngIdle /\ ApiIdle /\ CmIdle /\ LifeIdle
NextWebsocket == WebsocketNext
SpecWebsocket == InitWebsocket /\ [][NextWebsocket]_vars

InitLifecycle == InitEngine
NextLifecycle == LifecycleNext
SpecLifecycle == InitLifecycle /\ [][NextLifecycle]_vars /\ LifecycleFairness

InitMission == MisInit /\ OptIdle /\ BaseIdle /\ OrbIdle /\ GeoIdle /\ EngIdle /\ ApiIdle /\ LifeIdle /\ WsIdle
NextMission == CoordinateMultiSatelliteMission
SpecMission == InitMission /\ [][NextMission]_vars

InitOptimize == OptInit /\ MisIdle /\ BaseIdle /\ OrbIdle /\ GeoIdle /\ EngIdle /\ ApiIdle /\ LifeIdle /\ WsIdle
NextOptimize == OptimizeSatellitePositioning
SpecOptimize == InitOptimize /\ [][NextOptimize]_vars

(***************************************************************************)
(* Claims: collision assessment                                            *)
(***************************************************************************)
ColRelPos == Sub(colIn.sat2_pos, colIn.sat1_pos)
ColRelVel == Sub(colIn.sat2_vel, colIn.sat1_vel)
ColRadiusSum == colIn.sat1_radius + colIn.sat2_radius

\* C1: with non-zero relative velocity, collision_risk is true if and only
\* if the computed closest-approach distance is strictly below
\* sat1_radius + sat2_radius and the computed time of closest approach lies
\* in [0, time_horizon], the horizon in hours compared in seconds.
C1_RiskIffCloseWithinHorizon ==
    (colPc = "done" /\ ColRelVel # ZeroVec) =>
        /\ ~colOut.error
        /\ colOut.collision_risk <=>
            /\ RatLt(colOut.closest_approach_distance_sq,
                     Rat(ColRadiusSum * ColRadiusSum, 1))
            /\ colOut.time_to_closest_approach.num >= 0
            /\ colOut.time_to_closest_approach.num
                 <= colIn.time_horizon * 3600 * colOut.time_to_closest_approach.den

\* A query with non-zero relative velocity whose closest approach is a
\* collision two seconds ahead.
C1_Witness ==
    /\ colPc = "done"
    /\ ColRelVel # ZeroVec
    /\ colOut.collision_risk
    /\ colOut.time_to_closest_approach = Rat(2, 1)

\* C2: with zero relative velocity the result is a normal one, its distance
\* is the current separation, and collision_risk is true exactly when the
\* current separation is below sat1_radius + sat2_radius.
C2_StaticRiskBySeparation ==
    (colPc = "done" /\ ColRelVel = ZeroVec) =>
        /\ ~colOut.error
        /\ colOut.closest_approach_distance_sq = Rat(Dot(ColRelPos, ColRelPos), 1)
        /\ colOut.collision_risk <=>
             Dot(ColRelPos, ColRelPos) < ColRadiusSum * ColRadiusSum

(***************************************************************************)
(* Claims: propagation from an element set                                 *)
(***************************************************************************)
InvalidElements(el) ==
    el.semi_major_axis <= 0 \/ el.ecc10 < 0 \/ el.ecc10 >= 10

\* C10: an element set with e outside [0,1) or a <= 0 ends in an error
\* outcome; no computed position/velocity pair is returned for it.
C10_InvalidElementsRejected ==
    (kepPc = "done" /\ InvalidElements(kepIn)) =>
        (kepOut.raised \/ ~kepOut.computed)

(***************************************************************************)
(* Claims: coverage merging                                                *)
(***************************************************************************)
\* C3: for a list of passes sorted by start time the merged windows are
\* ordered, non-overlapping and non-adjacent: each has start <= end and ends
\* strictly before the next one starts.
C3_WindowsDisjointOrdered ==
    mergePc = "done" =>
        /\ \A i \in 1..Len(mergeOut) : mergeOut[i].start <= mergeOut[i].end
        /\ \A i \in 1..(Len(mergeOut) - 1) :
              mergeOut[i].end < mergeOut[i + 1].start

\* Three passes of which two touch end to start: merged into one window,
\* followed by a second window.
C3_Witness ==
    /\ mergePc = "done"
    /\ Len(mergeIn) = 3
    /\ Len(mergeOut) = 2
    /\ mergeIn[2].start_time = mergeIn[1].end_time
    /\ mergeOut[1].end = mergeIn[2].end_time

(***************************************************************************)
(* Claims: pass prediction                                                 *)
(***************************************************************************)
Emitted == {passes[i] : i \in DOMAIN passes} \cup
           {predictions[i] : i \in DOMAIN predictions}

Requested == {satellite_ids[i] : i \in DOMAIN satellite_ids}

\* C5: predict_orbital_passes returns the passes of the requested registered
\* satellites in one list ordered by non-decreasing start_time, whatever the
\* order of the ids: the list is sorted, holds passes of requested
\* registered satellites only, and holds every pass of the satellite
\* searched last.
C5_AggregatedSortedByStart ==
    pc = "done" =>
        /\ \A i \in 1..(Len(predictions) - 1) :
              predictions[i].start_time <= predictions[i + 1].start_time
        /\ \A i \in DOMAIN predictions :
              predictions[i].satellite_id \in Requested \cap DOMAIN profile
        /\ \A i \in DOMAIN passes :
              \E j \in DOMAIN predictions : predictions[j] = passes[i]

\* A returned list in which a pass of sat2 lies between two passes of sat1,
\* although sat1 was searched first.
C5_Witness ==
    /\ pc = "done"
    /\ satellite_ids = <<"sat1", "sat2">>
    /\ Len(predictions) = 3
    /\ predictions[1].satellite_id = "sat1"
    /\ predictions[2].satellite_id = "sat2"
    /\ predictions[3].satellite_id = "sat1"
    /\ predictions[1].start_time < predictions[2].start_time
    /\ predictions[2].start_time < predictions[3].start_time

\* C6: every emitted pass has start_time strictly before end_time, and its
\* duration is end_time - start_time in minutes.
C6_StartBeforeEndDurationMinutes ==
    \A p \in Emitted :
        /\ p.start_time < p.end_time
        /\ p.duration.den > 0
        /\ p.duration.num * 60 = (p.end_time - p.start_time) * p.duration.den

\* A returned pass of a minute and a half.
C6_Witness ==
    /\ pc = "done"
    /\ \E i \in DOMAIN predictions :
          /\ predictions[i].end_time - predictions[i].start_time = 90
          /\ predictions[i].duration = Rat(90, 60)

\* C7: every emitted pass has max_elevation >= the min_elevation of the
\* query, also for a minimum at or below zero.
C7_MaxElevationAtLeastMinimum ==
    \A p \in Emitted : p.max_elevation >= query.min_elevation

\* A pass returned for a negative minimum elevation, of a satellite that
\* never rose above -2 degrees: its max_elevation is the initial 0.0.
C7_Witness ==
    /\ pc = "done"
    /\ query.min_elevation = -10
    /\ \E i \in DOMAIN predictions :
          /\ profile[predictions[i].satellite_id].pk = -2
          /\ predictions[i].max_elevation = 0

\* The elevation the geometry gives a satellite at time t.
ElevationOf(sat, t) == Elevation(profile[sat], t)

\* C8: the recorded start of a pass is within one step of the upward
\* crossing of the minimum elevation and the recorded end within one step
\* of the downward crossing (a step taken as the one-minute scan step, the
\* coarser of the two), also when the satellite is already above the
\* threshold when the search starts; the recorded peak is at least the
\* elevation at both boundaries.
C8_BoundariesAtCrossings ==
    \A p \in Emitted :
        /\ \E t \in {p.start_time - 30, p.start_time - 60} :
              ElevationOf(p.satellite_id, t) < query.min_elevation
        /\ ElevationOf(p.satellite_id, p.start_time) >= query.min_elevation
        /\ \E t \in {p.end_time - 30, p.end_time - 60} :
              ElevationOf(p.satellite_id, t) >= query.min_elevation
        /\ ElevationOf(p.satellite_id, p.end_time) < query.min_elevation
        /\ p.max_elevation >= ElevationOf(p.satellite_id, p.start_time)
        /\ p.max_elevation >= ElevationOf(p.satellite_id, p.end_time)

\* C9: when a boundary search uses up its 30 minutes (its sample budget)
\* while a pass is in progress, the unfinished pass is not dropped: the
\* predictor records it among its results.
C9_UnfinishedPassReported ==
    [][(pc = "found" /\ find.pass_start # None /\ find.pass_end = None)
          => Len(passes') > Len(passes)]_vars

(***************************************************************************)
(* Claims: constellation coverage                                          *)
(***************************************************************************)
\* C4: the total duration of the merged coverage windows never exceeds the
\* requested horizon, so coverage_percentage is never above 100.
C4_CoverageWithinHorizon ==
    (covPc = "done" /\ ~coverage_data.error) =>
        /\ RatLe(coverage_data.total_coverage_time, Rat(covIn.time_horizon_min, 1))
        /\ RatLe(coverage_data.coverage_percentage, Rat(100, 1))

(***************************************************************************)
(* Claims about the maneuver planner                                       *)
(***************************************************************************)
\* The planner's model of a transfer covers a change of semi-major axis
\* between orbits that agree in everything else.
CannotModel(current_orbit, target_orbit) ==
    \/ current_orbit.inclination # target_orbit.inclination
    \/ current_orbit.right_ascension # target_orbit.right_ascension
    \/ current_orbit.ecc1000 # target_orbit.ecc1000

\* C11: a maneuver between orbits that differ in inclination, right
\* ascension or eccentricity is answered "unsupported", never with a "none"
\* plan of zero delta-v and never with a plain Hohmann plan.
C11_UnsupportedManeuverDeclined ==
    (manPc = "done" /\ CannotModel(manIn.current_orbit, manIn.target_orbit))
        => manOut.maneuver_type = "unsupported"

\* C12: two calls of calculate_hohmann_transfer whose radii are swapped
\* return the same delta_v_total and the same transfer_time.
C12_HohmannSymmetric ==
    \A i \in DOMAIN hohIn : \A j \in DOMAIN hohIn :
        (hohIn[i].r1 = hohIn[j].r2 /\ hohIn[i].r2 = hohIn[j].r1)
            => /\ hohOut[i].delta_v_total = hohOut[j].delta_v_total
               /\ hohOut[i].transfer_time = hohOut[j].transfer_time

\* An outward transfer and the return transfer have both been computed;
\* the burns differ, and are exchanged between the two directions.
C12_Witness ==
    /\ Len(hohIn) = 2
    /\ hohIn[1].r1 < hohIn[1].r2
    /\ hohIn[2] = [r1 |-> hohIn[1].r2, r2 |-> hohIn[1].r1]
    /\ hohOut[1].delta_v1 # hohOut[1].delta_v2
    /\ hohOut[1].delta_v1 = hohOut[2].delta_v2
    /\ hohOut[1].delta_v_total > 0
    /\ hohOut[1].transfer_time > 0


(***************************************************************************)
(* Claims about station keeping                                            *)
(***************************************************************************)
SkDrift ==
    [semi_major_axis |-> skIn.target_orbit.a10 - skIn.current_orbit.a10,
     inclination |-> skIn.target_orbit.inc10 - skIn.current_orbit.inc10,
     eccentricity |-> skIn.target_orbit.ecc10000 - skIn.current_orbit.ecc10000]

SkTolerance ==
    [semi_major_axis |-> ToleranceA10, inclination |-> ToleranceInc10,
     eccentricity |-> ToleranceEcc10000]

SkOutOfTolerance == {k \in DOMAIN SkDrift : Abs(SkDrift[k]) > SkTolerance[k]}

SkListed == DOMAIN skOut.corrections_needed

\* C20: no correction is reported (station_keeping_required false,
\* total_delta_v 0, nothing listed) exactly when the three drifts are within
\* |da| <= 0.1 km, |di| <= 0.1 degree and |de| <= 0.001; otherwise exactly
\* the elements out of tolerance are listed and total_delta_v is the sum of
\* their delta-v values.
C20_StationKeepingByTolerance ==
    skPc = "done" =>
        /\ SkListed = SkOutOfTolerance
        /\ skOut.station_keeping_required = (SkOutOfTolerance # {})
        /\ SkOutOfTolerance = {} => skOut.total_delta_v = 0
        /\ skOut.total_delta_v = sum_delta_v(skOut.corrections_needed, SkListed)

\* The semi-major axis has drifted by exactly its tolerance and is left
\* alone, while inclination and eccentricity are both corrected.
C20_Witness ==
    /\ skPc = "done"
    /\ Abs(SkDrift.semi_major_axis) = ToleranceA10
    /\ SkListed = {"inclination", "eccentricity"}
    /\ skOut.total_delta_v =
          skOut.corrections_needed["inclination"].delta_v
            + skOut.corrections_needed["eccentricity"].delta_v
    /\ skOut.corrections_needed["inclination"].delta_v > 0
    /\ skOut.corrections_needed["eccentricity"].delta_v > 0


(***************************************************************************)
(* Claims about the coordinate conversions                                 *)
(***************************************************************************)
\* C13: a point with latitude in [-90, 90], longitude in [-180, 180] and an
\* altitude above the ground, converted to inertial coordinates and back,
\* comes back with its latitude, longitude and altitude within tolerance;
\* also at the poles and at longitude +180 and -180.  The tolerance is the
\* resolution of the fixed point: one degree, and 1/5000 of the distance
\* from the centre of the Earth.
C13_GeodeticRoundTrip ==
    geoPc = "done" =>
        /\ Abs(geoOut.lat - geoIn.lat) <= 1
        /\ Abs(geoOut.lng - geoIn.lng) <= 1
        /\ Abs(geoOut.alt - geoIn.alt) * 5000 <= EarthRadius + geoIn.alt

\* The round trip of a point at the north pole on the date line.
C13_Witness ==
    /\ geoPc = "done"
    /\ geoIn.lat = 90 /\ geoIn.lng = -180 /\ geoIn.alt = 1600
    /\ geoEci.x.lvl = 1 /\ geoEci.y.lvl = 2
    /\ geoOut.lat = 90 /\ geoOut.lng = -180


(***************************************************************************)
(* Claims about the engine                                                 *)
(***************************************************************************)
\* C14: in every state of the engine the propagators and the metadata
\* records are kept under the same identifiers, one of each per satellite,
\* also when the element set of a satellite could not be loaded.
C14_RegistryKeySetsEqual == DOMAIN profile = DOMAIN satellite_metadata

\* The first satellite failed to load, the second is registered, and the
\* refresh loop has recorded its position.
C14_Witness ==
    /\ DOMAIN profile = {"sat2"}
    /\ DOMAIN satellite_metadata = {"sat2"}
    /\ satellite_metadata["sat2"].last_position # None


\* The caller of get_satellite_position asked for a satellite that is
\* registered, at an instant at which its propagation succeeds.
PositionExpected ==
    /\ posIn.satellite_id \in DOMAIN profile
    /\ Sample(profile[posIn.satellite_id], posIn.timestamp).kind = "ok"

\* C16: get_satellite_position returns None when the satellite is not
\* registered and when the propagator reports an error (or raises), returns
\* a position only when the propagation succeeded, and leaves the registry,
\* the metadata, is_running and the refresh loop as they were.
C16_PositionNoneOnFailure ==
    [][(posPc = "call" /\ posPc' = "done") =>
          /\ posOut'.is_none <=> ~PositionExpected
          /\ ~posOut'.is_none => posOut'.timestamp = posIn.timestamp
          /\ UNCHANGED <<profile, satellite_metadata, is_running, refPc>>]_vars

\* A position was refused because the propagator reported an error for a
\* registered satellite at the requested instant.
C16_Witness ==
    /\ posPc = "done"
    /\ posIn.satellite_id \in DOMAIN profile
    /\ Sample(profile[posIn.satellite_id], posIn.timestamp).kind = "err"
    /\ posOut.is_none
    /\ posOut.logged = "warning"

\* C15: a pass query does not stall the refresh loop: at every point
\* between the start and the return of predict_orbital_passes, a refresh
\* cycle that has come due (the loop's sleep is over, the engine is
\* running) can be run.
C15_QueryDoesNotStallRefresh ==
    (is_running /\ refPc = "ready") => ENABLED RefreshCycle


(***************************************************************************)
(* Claims about the pass endpoints                                         *)
(***************************************************************************)
\* C17: a request whose latitude is outside [-90, 90] or whose longitude is
\* outside [-180, 180] is answered with a validation error (400) without
\* the engine being called, on the pass list and on the next pass.
C17_CoordinatesValidated ==
    (apiPc = "done"
       /\ (apiIn.latitude < -90 \/ apiIn.latitude > 90
             \/ apiIn.longitude < -180 \/ apiIn.longitude > 180))
        => (apiOut.status = 400 /\ ~apiOut.engine_called)


(***************************************************************************)
(* Claims about the constellation manager                                  *)
(***************************************************************************)
MisAreas == {misIn.target_areas[i] : i \in DOMAIN misIn.target_areas}
MisSatellites == {misIn.satellite_ids[i] : i \in DOMAIN misIn.satellite_ids}
MisAssignedTo(sat) == Cardinality({a \in DOMAIN misOut.assignment : misOut.assignment[a] = sat})

\* With satellites, area i (counted from 0) is given satellite i mod n, every
\* area has its satellite, and no satellite has two areas more than another.
MisRoundRobin ==
    /\ ~misOut.error
    /\ DOMAIN misOut.assignment = MisAreas
    /\ \A i \in DOMAIN misIn.target_areas :
          misOut.assignment[misIn.target_areas[i]] =
              misIn.satellite_ids[((i - 1) % Len(misIn.satellite_ids)) + 1]
    /\ \A s \in MisSatellites : \A t \in MisSatellites :
          MisAssignedTo(s) - MisAssignedTo(t) <= 1

\* C18 as stated: round-robin assignment, and an error value whenever the
\* list of satellites is empty.
C18_RoundRobinOrErrorOnEmpty ==
    misPc = "done" =>
        /\ misIn.satellite_ids # <<>> => MisRoundRobin
        /\ misIn.satellite_ids = <<>> => misOut.error

\* C18, amended: round-robin assignment; with an empty list of satellites
\* an error value when there is an area to assign, and a plan with an empty
\* assignment when there is none.
C18_RoundRobinOrErrorOnEmptyWithAreas ==
    misPc = "done" =>
        /\ misIn.satellite_ids # <<>> => MisRoundRobin
        /\ (misIn.satellite_ids = <<>> /\ misIn.target_areas # <<>>) => misOut.error
        /\ (misIn.satellite_ids = <<>> /\ misIn.target_areas = <<>>) =>
              (~misOut.error /\ misOut.assignment = <<>>)

\* Four areas over three satellites: the first satellite has two areas.
C18_Witness ==
    /\ misPc = "done"
    /\ misIn.satellite_ids = <<"sat2", "sat1", "sat3">>
    /\ Len(misIn.target_areas) = 4
    /\ misOut.assignment[misIn.target_areas[4]] = "sat2"
    /\ MisAssignedTo("sat2") = 2 /\ MisAssignedTo("sat1") = 1


OptFlagged(flag) ==
    \E i \in DOMAIN optOut.recommendations : optOut.recommendations[i] = flag

\* C19: the report has minimum <= average <= maximum, add_more_satellites
\* is recommended exactly when the coverage of some target is below 50
\* percent, and with no target there is no recommendation.
C19_OptimizeReport ==
    (optPc = "done" /\ ~optOut.error) =>
        /\ optOut.minimum_coverage <= optOut.average_coverage
        /\ optOut.average_coverage <= optOut.maximum_coverage
        /\ OptFlagged("add_more_satellites") <=>
              \E i \in DOMAIN optIn.coverage :
                  get_coverage_percentage(optIn.coverage[i]) < CoverageFloor * UnitsPerPercent
        /\ optIn.coverage = <<>> => optOut.recommendations = <<>>


(***************************************************************************)
(* Claims about the life of the engine                                     *)
(***************************************************************************)
\* The tasks that run _position_update_loop and have not ended.
ActiveLoops ==
    (IF refPc \in {"ready", "sleeping"} THEN 1 ELSE 0)
    + Cardinality({i \in DOMAIN later_loops : later_loops[i] # "stopped"})

\* C21: initialize leaves is_running set and a registry that is not empty,
\* shutdown leaves is_running cleared, the cache is not written while
\* is_running stays cleared, and when is_running stays cleared for good
\* every refresh loop ends.
C21_InitializeAndShutdown ==
    /\ [][(Initialize \/ InitializeAgain) =>
            (is_running' /\ DOMAIN profile' # {})]_vars
    /\ [][Shutdown => ~is_running']_vars
    /\ [][(~is_running /\ ~is_running') =>
            satellite_metadata' = satellite_metadata]_vars
    /\ (<>[](~is_running) => <>[](ActiveLoops = 0))

C21_RunningAfterInitialize ==
    [][(Initialize \/ InitializeAgain) => is_running']_vars

C21_ShutdownStopsLoops ==
    /\ [][Shutdown => ~is_running']_vars
    /\ [][(~is_running /\ ~is_running') =>
            satellite_metadata' = satellite_metadata]_vars
    /\ (<>[](~is_running) => <>[](ActiveLoops = 0))

\* C29: at most one task runs the refresh loop.
C29_OneRefreshLoop == ActiveLoops <= 1


(***************************************************************************)
(* Claims about the connection manager                                     *)
(***************************************************************************)
\* C22: a socket that was disconnected and not connected since is not in
\* active_connections, has no room subscriptions, and no broadcast and no
\* room broadcast sends to it.
C22_DisconnectedGetsNothing ==
    /\ [](\A ws \in wsGone :
             /\ ws \notin Range(active_connections)
             /\ ws \notin DOMAIN room_subscriptions)
    /\ [][\A ws \in wsGone : ws \notin wsSent']_vars


(***************************************************************************)
(* Claims: the scan of the pass predictor                                  *)
(***************************************************************************)
\* C23: of the passes emitted for one satellite and one observer, each
\* starts at least the guard interval of five minutes after the end of the
\* pass emitted before it, so that no two overlap.
C23_GuardBetweenPasses ==
    \A i \in DOMAIN passes : \A j \in DOMAIN passes :
        i < j => passes[j].start_time >= passes[i].end_time + GuardSeconds

\* Two passes of one satellite, the second found after the skip.
C23_Witness ==
    /\ Len(passes) = 2
    /\ passes[1].end_time = 90
    /\ passes[2].start_time = 510


\* C26: the search ends for every horizon.  An iteration of the scan, with
\* or without a boundary search in it, moves the scan time on by a minute
\* or more; an iteration of the boundary search that stays in its loop moves
\* its time on by 30 seconds, also at a sample that fails; both times stay
\* within the horizon and the search window, which bounds the number of
\* samples; and a search that was called returns.
C26_SearchTerminates ==
    /\ [][(pc \in {"scan", "found"} /\ pc' = "scan") =>
            current_time' >= current_time + ScanStepSeconds]_vars
    /\ [][(pc = "find" /\ pc' = "find") =>
            find'.current_time = find.current_time + StepSizeSeconds]_vars
    /\ [](current_time <= end_time + SearchDurationSeconds + GuardSeconds)
    /\ [](find.current_time <= find.start_time + SearchDurationSeconds)
    /\ (pc = "call" ~> pc = "done")

\* A search over the longest horizon that has returned although every
\* sample of the satellite raised.
C26_Witness ==
    /\ pc = "done"
    /\ query.horizon_min = MaxHorizonMin
    /\ query.satellite_ids = <<"sat1">>
    /\ profile["sat1"].fault = "exc_all"


\* A boundary search has used up its 30 minutes with the satellite in a
\* pass whose end it did not see.
SearchUsedUpInPass ==
    pc = "found" /\ find.pass_start # None /\ find.pass_end = None

\* The satellite is at or above the minimum elevation of the query for 30
\* minutes or longer, from the start of its first window to its end, and
\* the window does not start before the scan.
StaysUp(sat) ==
    /\ profile[sat].rise >= start_time
    /\ profile[sat].dur >= SearchDurationSeconds
    /\ profile[sat].hi >= query.min_elevation
    /\ profile[sat].pk >= query.min_elevation

DuringStay(sat, t) == StaysUp(sat) /\ InWindow(Window1(profile[sat]), t)

PassLengthWithinWindow ==
    \A p \in Emitted :
        /\ p.end_time - p.start_time >= StepSizeSeconds
        /\ p.end_time - p.start_time < SearchDurationSeconds

ScanRepeatsSearch ==
    /\ [][SearchUsedUpInPass =>
            /\ passes' = passes
            /\ current_time' = current_time + ScanStepSeconds
            /\ pc' = "scan"]_vars
    /\ []((/\ pc = "scan"
           /\ current_time < end_time
           /\ Sample(CurrentProfile, current_time).kind = "ok"
           /\ Sample(CurrentProfile, current_time).elevation >= query.min_elevation)
          => ENABLED ScanFindBoundaries)

SeparationSqAt(t) ==
    LET at == [i \in 1..3 |-> ColRelPos[i] * t.den + ColRelVel[i] * t.num]
    IN  Rat(Dot(at, at), t.den * t.den)

\* C24: the reported time_to_closest_approach lies in [0, time_horizon], the
\* horizon in hours taken in seconds, and the reported distance is the
\* separation at the reported time.
C24_ClosestApproachWithinHorizon ==
    (colPc = "done" /\ ~colOut.error) =>
        /\ RatLe(Rat(0, 1), colOut.time_to_closest_approach)
        /\ RatLe(colOut.time_to_closest_approach,
                 Rat(colIn.time_horizon * SecondsPerHour, 1))
        /\ RatLe(colOut.closest_approach_distance_sq,
                 SeparationSqAt(colOut.time_to_closest_approach))
        /\ RatLe(SeparationSqAt(colOut.time_to_closest_approach),
                 colOut.closest_approach_distance_sq)


(***************************************************************************)
(* Claims: the refresh of the cached positions                             *)
(***************************************************************************)
\* C25: a refresh cycle has one timestamp; it gives every registered
\* satellite whose propagation at that time succeeds a snapshot with that
\* timestamp, and leaves the snapshot of every satellite whose propagation
\* fails as it was, whatever the other satellites do.
C25_RefreshPerSatellite ==
    [][(refPc = "ready" /\ refPc' = "sleeping") =>
          \E t \in WallClock : \A s \in DOMAIN profile :
              IF Sample(profile[s], t).kind = "ok"
              THEN satellite_metadata'[s].last_position = t
              ELSE satellite_metadata'[s] = satellite_metadata[s]]_vars

\* After a cycle at 60 s the first satellite, whose propagation failed in
\* that cycle, has its snapshot of 0 s and the second has the one of 60 s.
C25_Witness ==
    /\ refPc = "sleeping"
    /\ DOMAIN profile = {"sat1", "sat2"}
    /\ Sample(profile["sat1"], 60).kind # "ok"
    /\ satellite_metadata["sat1"].last_position = 0
    /\ satellite_metadata["sat2"].last_position = 60


(***************************************************************************)
(* Claims: the union of the passes                                         *)
(***************************************************************************)
\* Instants are counted in half units of time, so that the instants
\* between two ends are looked at as well as the ends.
MergeInstants == 0..(2 * MaxMergeTime)

PassesAt(k) ==
    {i \in DOMAIN mergeIn :
        2 * mergeIn[i].start_time <= k /\ k <= 2 * mergeIn[i].end_time}

WindowsAt(k) ==
    {i \in DOMAIN mergeOut : 2 * mergeOut[i].start <= k /\ k <= 2 * mergeOut[i].end}

\* The passes that start after every pass before them has ended.
OpensWindow(i) ==
    \A j \in 1..(i - 1) : mergeIn[j].end_time < mergeIn[i].start_time

\* C27: for passes sorted by start time, an instant inside some pass lies
\* in exactly one window and an instant inside no pass lies in none, and a
\* window is opened by those passes only that start after the end of the
\* window before them.
C27_WindowsAreUnionOfPasses ==
    mergePc = "done" =>
        /\ \A k \in MergeInstants :
              Cardinality(WindowsAt(k)) = IF PassesAt(k) # {} THEN 1 ELSE 0
        /\ Len(mergeOut) = Cardinality({i \in DOMAIN mergeIn : OpensWindow(i)})

\* Three passes, the second inside the first and the third touching the
\* end of the first, merged into one window.
C27_Witness ==
    /\ mergePc = "done"
    /\ Len(mergeIn) = 3
    /\ mergeIn[1].start_time = 0 /\ mergeIn[1].end_time = 4
    /\ mergeIn[2].start_time = 1 /\ mergeIn[2].end_time = 2
    /\ mergeIn[3].start_time = 4 /\ mergeIn[3].end_time = 5
    /\ Len(mergeOut) = 1
    /\ mergeOut[1].start = 0 /\ mergeOut[1].end = 5


(***************************************************************************)
(* Claims: the coverage analysis of a mission                              *)
(***************************************************************************)
\* C28: in the plan of a mission every target area has a coverage result
\* that is not an error value and is computed from the passes of the
\* satellites of the mission.
C28_MissionCoveragePerTarget ==
    (misPc = "done" /\ ~misOut.error) =>
        \A a \in MisAreas :
            /\ a \in DOMAIN misOut.coverage_analysis
            /\ ~misOut.coverage_analysis[a].error
            /\ misOut.coverage_analysis[a].satellite_ids = misIn.satellite_ids


====
